---- MODULE Spec2Model ----
(***************************************************************************)
(* Model of scylla-gdb.py: the object-graph builder                        *)
(* (scylla generate-object-graph), the span table (spans, span_checker),   *)
(* the pointer classifier (scylla_ptr.analyze), the LSA segment decoder    *)
(* (lsa_object_descriptor, scylla lsa-segment), the fiber walk             *)
(* (scylla fiber), the histogram class, the heap profile tree              *)
(* (scylla heapprof), the page sampling of scylla task_histogram and the   *)
(* symbol cache of resolve.                                                *)
(***************************************************************************)
EXTENDS Integers, Sequences, FiniteSets, TLC

(***************************************************************************)
(* Bounds of the object-graph model.                                       *)
(***************************************************************************)
\* live heap objects are 1..NumObjects
NumObjects == 3
\* number of pointer fields of the heap that hold an object's address
MaxRefs == 3
\* greatest --max-depth / --max-vertices value tried
MaxLimit == 3
\* levels after which an unlimited traversal is no longer followed
DepthCap == 3

Objects == 1..NumObjects
\* byte offsets of the pointer fields of an object
Offsets == {0, 8}
\* -1 is the documented "unlimited"; 0 is treated as unlimited by the traversal too
Limits == {-1, 0} \cup (1..MaxLimit)
Timeouts == {-1, 1}

VARIABLES
    \* generate-object-graph: arguments
    address, max_depth, max_vertices, timeout_seconds,
    \* _traverse_object_graph_breadth_first: locals
    vertices, edges, current_objects, next_objects, depth, stop,
    \* position in the traversal: program counter, index of the outer for loop,
    \* the object being scanned and what its find generator has still to yield
    pc, ci, current_obj, hits,
    \* the inspected memory as far as find has read it: <<referrer, offset, referee>>
    heap, found,
    \* the addresses find was called with, in call order
    scanned,
    \* time.time() - start_time > timeout_seconds has become true
    late,
    \* the .dot file: "absent", "open" (digraph header written), "written"
    dot_file,
    \* seastar::memory::cpu_mem.pages of a reactor thread, and the small pools
    pages, pools,
    \* gdb: which threads run a reactor, and the selected thread
    has_reactor, selected,
    \* the last query: operation, pointer, thread selected before it, and its result
    op, ptr, orig, span_found, ptr_meta, outcome,
    \* scylla lsa-segment: the bytes of the segment, the records they were laid
    \* out from, the read position, the descriptor decoded last, the descriptors
    \* printed, and the position in invoke
    lsa_mem, planted, seg, desc, printed, lsa_pc,
    \* scylla fiber: arguments (task, --max-depth, --scanned-region-size) and the
    \* mode _walk settles on
    fiber_task, fiber_max_depth, scanned_region_size, using_seastar_allocator,
    \* the inspected memory: what the first word of each object is, the words
    \* after it, and the size scylla_ptr.analyze reports for the objects
    task_kind, task_words, reported_size,
    \* _walk / _do_walk: the start task, the ptr_meta and depth of the running
    \* _do_walk call, the entries the calls below it have still to append, the
    \* list the outermost _do_walk returns, what _walk returns, position; the
    \* addresses the for loop of the last _do_walk call read, and the object it
    \* scanned
    this_task, walk_meta, walk_i, pending, fiber, walked, fiber_pc,
    scan_reads, scan_meta,
    \* histogram: the dict objects that hold counts (the first is the default
    \* value of the counts parameter) and the instances constructed
    count_dicts, hists,
    \* scylla heapprof: the allocation-site list of the inferior, --inverted,
    \* the record the loop is at, the tree, position
    alloc_site_list, args_inverted, site_pos, prof_tree, prof_pc,
    \* scylla task_histogram: --all, --samples, the order the pages are taken
    \* in, the vptrs a page holds if it is scanned at all, the loop's position,
    \* its counters, position
    args_all, args_samples, page_samples, page_vptrs, sample_pos, scanned_pages, vptr_count, task_pc,
    \* resolve: the process-wide map names, what gdb's info symbol answers for
    \* each address, the calls made of it, and the last call of resolve (its
    \* arguments, what it returned, whether it asked gdb)
    names, symbol_info, info_calls, last_resolve,
    \* scylla thread / scylla unthread: the saved registers of each OS thread
    \* (newest frame), the seastar threads that are running on their OS
    \* thread, the module-level active_thread_context, the selection and the
    \* registers as they were when the context in force was built, the last
    \* command
    regs, switched_in, active_thread_context, ctx_before, ctx_op

graphVars == <<address, max_depth, max_vertices, timeout_seconds, vertices, edges,
               current_objects, next_objects, depth, stop, pc, ci, current_obj,
               hits, heap, found, scanned, late, dot_file>>

memVars == <<pages, pools, has_reactor, selected>>

queryVars == <<op, ptr, orig, span_found, ptr_meta, outcome>>

lsaVars == <<lsa_mem, planted, seg, desc, printed, lsa_pc>>

fiberVars == <<fiber_task, fiber_max_depth, scanned_region_size, using_seastar_allocator,
               task_kind, task_words, reported_size,
               this_task, walk_meta, walk_i, pending, fiber, walked, fiber_pc,
               scan_reads, scan_meta>>

histVars == <<count_dicts, hists>>

profVars == <<alloc_site_list, args_inverted, site_pos, prof_tree, prof_pc>>

taskVars == <<args_all, args_samples, page_samples, page_vptrs, sample_pos, scanned_pages, vptr_count, task_pc>>

resolveVars == <<names, symbol_info, info_calls, last_resolve>>

ctxVars == <<regs, switched_in, active_thread_context, ctx_before, ctx_op>>

\* the state of the commands modelled after the pointer classifier
otherVars == <<lsaVars, fiberVars, histVars, profVars, taskVars, resolveVars, ctxVars>>

vars == <<graphVars, memVars, queryVars, otherVars>>

\* scylla lsa-segment is not running
LsaIdle ==
    /\ lsa_mem = <<>>
    /\ planted = <<>>
    /\ seg = 0
    /\ desc = <<>>
    /\ printed = <<>>
    /\ lsa_pc = "idle"

\* scylla fiber is not running
FiberIdle ==
    /\ fiber_task = 0
    /\ fiber_max_depth = 0
    /\ scanned_region_size = 0
    /\ using_seastar_allocator = FALSE
    /\ task_kind = <<>>
    /\ task_words = <<>>
    /\ reported_size = 0
    /\ this_task = <<>>
    /\ walk_meta = <<>>
    /\ walk_i = 0
    /\ pending = <<>>
    /\ fiber = <<>>
    /\ walked = <<>>
    /\ fiber_pc = "idle"
    /\ scan_reads = <<>>
    /\ scan_meta = <<>>

\* no histogram has been constructed; the default counts object exists since
\* the class was defined
HistIdle ==
    /\ count_dicts = <<<<>>>>
    /\ hists = <<>>

\* scylla heapprof has not been called
ProfIdle ==
    /\ alloc_site_list = <<>>
    /\ args_inverted = FALSE
    /\ site_pos = 1
    /\ prof_tree = <<>>
    /\ prof_pc = "idle"

\* scylla task_histogram has not been called
TaskIdle ==
    /\ args_all = FALSE
    /\ args_samples = 0
    /\ page_samples = <<>>
    /\ page_vptrs = <<>>
    /\ sample_pos = 1
    /\ scanned_pages = 0
    /\ vptr_count = <<>>
    /\ task_pc = "idle"

\* resolve has not been called
ResolveIdle ==
    /\ names = <<>>
    /\ symbol_info = <<>>
    /\ info_calls = 0
    /\ last_resolve = <<>>

\* no scylla thread command was given
CtxIdle ==
    /\ regs = <<>>
    /\ switched_in = {}
    /\ active_thread_context = <<>>
    /\ ctx_before = <<>>
    /\ ctx_op = "none"

OtherIdle == LsaIdle /\ FiberIdle /\ HistIdle /\ ProfIdle /\ TaskIdle /\ ResolveIdle /\ CtxIdle

\* what the LSA commands leave alone
lsaFrame == <<graphVars, memVars, queryVars, fiberVars, histVars, profVars, taskVars, resolveVars, ctxVars>>

\* what scylla fiber leaves alone
fiberFrame == <<graphVars, memVars, queryVars, lsaVars, histVars, profVars, taskVars, resolveVars, ctxVars>>

\* what the histogram class leaves alone
histFrame == <<graphVars, memVars, queryVars, lsaVars, fiberVars, profVars, taskVars, resolveVars, ctxVars>>

\* what prof leaves alone
profFrame == <<graphVars, memVars, queryVars, lsaVars, fiberVars, histVars, taskVars, resolveVars, ctxVars>>

\* what task leaves alone
taskFrame == <<graphVars, memVars, queryVars, lsaVars, fiberVars, histVars, profVars, resolveVars, ctxVars>>

\* what resolve leaves alone
resolveFrame == <<graphVars, memVars, queryVars, lsaVars, fiberVars, histVars, profVars, taskVars, ctxVars>>

\* what ctx leaves alone
ctxFrame == <<graphVars, memVars, queryVars, lsaVars, fiberVars, histVars, profVars, taskVars, resolveVars>>

(***************************************************************************)
(* Helpers.                                                                *)
(***************************************************************************)
\* a hit of find: the referrer object and the offset of the field inside it
HitLess(a, b) == a[1] < b[1] \/ (a[1] = b[1] /\ a[2] < b[2])

\* gdb's find lists matching locations by ascending address
RECURSIVE SortHits(_)
SortHits(S) ==
    IF S = {} THEN <<>>
    ELSE LET m == CHOOSE x \in S : \A y \in S \ {x} : HitLess(x, y)
         IN  <<m>> \o SortHits(S \ {m})

\* the fields of the heap that hold value, as find_in_live reports them
HitsOf(h, value) == SortHits({<<t[1], t[2]>> : t \in {u \in h : u[3] = value}})

\* edges[(next_obj, current_obj)].add(next_off) on a defaultdict(set)
AddEdge(e, key, off) ==
    [k \in DOMAIN e \cup {key} |->
        IF k = key THEN (IF key \in DOMAIN e THEN e[key] ELSE {}) \cup {off}
        ELSE e[k]]


(***************************************************************************)
(* scylla_generate_object_graph.invoke                                     *)
(***************************************************************************)
\* the test that turns an unlimited request down
Unlimited(d, v, t) == d = -1 /\ v = -1 /\ t = -1

\* no pointer query is part of the object-graph model
QueryIdle ==
    /\ pages = <<>>
    /\ pools = <<>>
    /\ has_reactor = <<>>
    /\ selected = 0
    /\ op = "none"
    /\ ptr = 0
    /\ orig = 0
    /\ span_found = <<>>
    /\ ptr_meta = <<>>
    /\ outcome = "none"

\* addresses differ only in the order in which find lists them: the root is the
\* lowest or the highest object
GraphInit ==
    /\ address \in {1, NumObjects}
    /\ max_depth \in Limits
    /\ max_vertices \in Limits
    /\ timeout_seconds \in Timeouts
    /\ vertices = {}
    /\ edges = <<>>
    /\ current_objects = <<>>
    /\ next_objects = <<>>
    /\ depth = 0
    /\ stop = FALSE
    /\ pc = "invoke"
    /\ ci = 0
    /\ current_obj = 0
    /\ hits = <<>>
    /\ heap = {}
    /\ found = {}
    /\ scanned = <<>>
    /\ late = FALSE
    /\ dot_file = "absent"
    /\ QueryIdle
    /\ OtherIdle

\* invoke: reject, or open the file and enter the traversal
Invoke ==
    /\ pc = "invoke"
    /\ IF Unlimited(max_depth, max_vertices, timeout_seconds)
       THEN /\ pc' = "rejected"
            /\ UNCHANGED <<dot_file, current_objects>>
       ELSE /\ pc' = "while"
            /\ dot_file' = "open"
            /\ current_objects' = <<address>>
    /\ UNCHANGED <<memVars, queryVars, otherVars>>
    /\ UNCHANGED <<address, max_depth, max_vertices, timeout_seconds, vertices, edges,
                   next_objects, depth, stop, ci, current_obj, hits, heap, found,
                   scanned, late>>

(***************************************************************************)
(* _traverse_object_graph_breadth_first                                    *)
(***************************************************************************)
\* while not stop: depth += 1, and the outer for loop starts
WhileHead ==
    /\ pc = "while"
    /\ IF stop
       THEN /\ pc' = "traversed"
            /\ UNCHANGED <<depth, ci>>
       ELSE /\ depth < DepthCap
            /\ depth' = depth + 1
            /\ ci' = 1
            /\ pc' = "for"
    /\ UNCHANGED <<memVars, queryVars, otherVars>>
    /\ UNCHANGED <<address, max_depth, max_vertices, timeout_seconds, vertices, edges,
                   current_objects, next_objects, stop, current_obj, hits, heap, found,
                   scanned, late, dot_file>>

\* the memory contents find can meet when it looks for value: the fields already
\* read keep their content, any other field may hold value
Referrers(value) ==
    IF value \in found
    THEN {{t \in heap : t[3] = value}}
    ELSE LET free == {s \in Objects \X Offsets :
                         \A t \in heap : <<t[1], t[2]>> # s}
         IN  {{<<s[1], s[2], value>> : s \in R} :
                R \in {Q \in SUBSET free : Cardinality(heap) + Cardinality(Q) <= MaxRefs}}

\* for current_obj in current_objects: the next object, for which
\* scylla_find.find(current_obj) is called, or the end of the level
ForNext ==
    /\ pc = "for"
    /\ IF ci > Len(current_objects)
       THEN /\ pc' = "level"
            /\ UNCHANGED <<current_obj, hits, heap, found, scanned>>
       ELSE /\ current_obj' = current_objects[ci]
            /\ \E R \in Referrers(current_objects[ci]) :
                 /\ heap' = heap \cup R
                 /\ hits' = HitsOf(heap \cup R, current_objects[ci])
            /\ found' = found \cup {current_objects[ci]}
            /\ scanned' = Append(scanned, current_objects[ci])
            /\ pc' = "hit"
    /\ UNCHANGED <<memVars, queryVars, otherVars>>
    /\ UNCHANGED <<address, max_depth, max_vertices, timeout_seconds, vertices, edges,
                   current_objects, next_objects, depth, stop, ci, late, dot_file>>

\* the timeout test of a hit, the clock reading being past the deadline or not
TimedOut(expired) == timeout_seconds > 0 /\ expired

\* the vertex bound test after a new vertex was recorded
VertexBoundReached(vs) == max_vertices > 0 /\ Cardinality(vs) >= max_vertices

\* one iteration of: for next_obj, next_off in scylla_find.find(current_obj)
\* (a break leaves this loop only: the outer for loop goes on with its next object)
HitStep ==
    /\ pc = "hit"
    /\ IF hits = <<>>
       THEN /\ ci' = ci + 1
            /\ pc' = "for"
            /\ UNCHANGED <<vertices, edges, next_objects, stop, hits, late>>
       ELSE LET next_obj == Head(hits)[1]
                next_off == Head(hits)[2]
            IN  \E expired \in {b \in BOOLEAN : (late => b) /\ (b => timeout_seconds > 0)} :
                  /\ late' = expired
                  /\ IF TimedOut(expired)
                     THEN /\ stop' = TRUE
                          /\ ci' = ci + 1
                          /\ pc' = "for"
                          /\ UNCHANGED <<vertices, edges, next_objects, hits>>
                     ELSE /\ edges' = AddEdge(edges, <<next_obj, current_obj>>, next_off)
                          /\ IF next_obj \in vertices
                             THEN /\ hits' = Tail(hits)
                                  /\ UNCHANGED <<vertices, next_objects, stop, ci, pc>>
                             ELSE /\ vertices' = vertices \cup {next_obj}
                                  /\ next_objects' = Append(next_objects, next_obj)
                                  /\ IF VertexBoundReached(vertices \cup {next_obj})
                                     THEN /\ stop' = TRUE
                                          /\ ci' = ci + 1
                                          /\ pc' = "for"
                                          /\ UNCHANGED hits
                                     ELSE /\ hits' = Tail(hits)
                                          /\ UNCHANGED <<stop, ci, pc>>
    /\ UNCHANGED <<memVars, queryVars, otherVars>>
    /\ UNCHANGED <<address, max_depth, max_vertices, timeout_seconds, current_objects,
                   depth, current_obj, heap, found, scanned, dot_file>>

\* a depth test that lets one more level through
DepthReachedLate(d) == max_depth > 0 /\ d > max_depth

\* the depth test that ends the traversal after a level
DepthReached(d) == max_depth > 0 /\ d = max_depth

\* after the outer for loop: the depth test, then the next level
LevelEnd ==
    /\ pc = "level"
    /\ IF DepthReached(depth)
       THEN /\ stop' = TRUE
            /\ pc' = "traversed"
            /\ UNCHANGED <<current_objects, next_objects>>
       ELSE /\ current_objects' = next_objects
            /\ next_objects' = <<>>
            /\ pc' = "while"
            /\ UNCHANGED stop
    /\ UNCHANGED <<memVars, queryVars, otherVars>>
    /\ UNCHANGED <<address, max_depth, max_vertices, timeout_seconds, vertices, edges,
                   depth, ci, current_obj, hits, heap, found, scanned, late, dot_file>>

(***************************************************************************)
(* _do_generate_object_graph / generate_object_graph                       *)
(***************************************************************************)
\* vertex statements without one for the root
WithoutRoot(vs) == vs

\* the vertex statements written: the traversal's vertices and the root
Exported(vs) == vs \cup {address}

Export ==
    /\ pc = "traversed"
    /\ vertices' = Exported(vertices)
    /\ dot_file' = "written"
    /\ pc' = "exported"
    /\ UNCHANGED <<memVars, queryVars, otherVars>>
    /\ UNCHANGED <<address, max_depth, max_vertices, timeout_seconds, edges,
                   current_objects, next_objects, depth, stop, ci, current_obj, hits,
                   heap, found, scanned, late>>

GraphNext == Invoke \/ WhileHead \/ ForNext \/ HitStep \/ LevelEnd \/ Export

SpecGraph == GraphInit /\ [][GraphNext]_vars

(***************************************************************************)
(* Properties of the object-graph builder.                                 *)
(***************************************************************************)
\* the objects joined to the root by a chain of at most k recorded edges
RECURSIVE ReachWithin(_)
ReachWithin(k) ==
    IF k = 0 THEN {address}
    ELSE LET r == ReachWithin(k - 1)
         IN  r \cup {e[1] : e \in {x \in DOMAIN edges : x[2] \in r}}

Traversing == pc \in {"while", "for", "hit", "level"}

\* C1 as claimed: with max_vertices > 0 the returned and the exported graph hold
\* at most max_vertices vertices
C1_VertexCountBounded ==
    (pc \in {"traversed", "exported"} /\ max_vertices > 0) =>
        Cardinality(vertices) <= max_vertices

\* C2: with max_depth > 0 no level beyond max_depth is entered and every recorded
\* vertex is joined to the root by a chain of at most max_depth recorded edges
C2_VerticesWithinMaxDepth ==
    max_depth > 0 =>
        /\ depth <= max_depth
        /\ vertices \subseteq ReachWithin(max_depth)
        /\ Traversing => vertices \subseteq ReachWithin(depth)

\* a graph cut at depth 2 that holds a vertex two edges from the root and whose
\* frontier is not empty
C2_Witness ==
    /\ pc = "exported"
    /\ max_depth = 2
    /\ depth = 2
    /\ next_objects # <<>>
    /\ \E v \in vertices : v \notin ReachWithin(1)

\* C3 as claimed: a request none of whose three limits binds the traversal (each
\* value <= 0) is rejected before any scan and before the file is opened
C3_RejectsEveryUnlimitedRequest ==
    (pc # "invoke" /\ max_depth <= 0 /\ max_vertices <= 0 /\ timeout_seconds <= 0) =>
        /\ pc = "rejected"
        /\ scanned = <<>>
        /\ dot_file = "absent"

\* C4 as claimed: once the vertex bound or the timeout has set stop, the traversal
\* scans no further object and adds no vertex and no edge
C4_NoWorkAfterStop ==
    [][(stop /\ Traversing) =>
          (scanned' = scanned /\ vertices' = vertices /\ edges' = edges)]_vars

(***************************************************************************)
(* Bounds of the allocator model.                                          *)
(***************************************************************************)
\* cpu_mem.nr_pages: the pages of a reactor thread's memory are 0..NrPages-1
NrPages == 4
\* greatest span_size a page descriptor carries
MaxSpan == 3
\* seastar::memory::page_size, in bytes
PageSize == 2

PageIdx == 0..(NrPages - 1)

\* None and a value, for what Python leaves optional
None == <<>>
Some(x) == <<x>>

\* seastar::memory::page: the fields the script reads
Page(span_size, free, pool, offset_in_span, freelist) ==
    [span_size |-> span_size, free |-> free, pool |-> pool,
     offset_in_span |-> offset_in_span, freelist |-> freelist]

\* cpu_mem.memory of thread t: the regions of the threads lie apart
RegionStride == (NrPages + MaxSpan + 1) * PageSize
MemStart(t) == t * RegionStride

(***************************************************************************)
(* spans(), span_checker                                                   *)
(***************************************************************************)
\* the page index spans() starts its scan at
FirstPage == 1

\* a scan that moves on by one page after a span head
RECURSIVE SpansStepOne(_, _, _)
SpansStepOne(idx, mem_start, pgs) ==
    IF idx >= NrPages THEN <<>>
    ELSE IF pgs[idx].span_size = 0 THEN SpansStepOne(idx + 1, mem_start, pgs)
    ELSE <<[index |-> idx, start |-> mem_start + idx * PageSize,
            size |-> pgs[idx].span_size]>>
         \o SpansStepOne(idx + 1, mem_start, pgs)

\* spans(): the scan of the page array from idx on
RECURSIVE SpansFrom(_, _, _)
SpansFrom(idx, mem_start, pgs) ==
    IF idx >= NrPages THEN <<>>
    ELSE IF pgs[idx].span_size = 0 THEN SpansFrom(idx + 1, mem_start, pgs)
    ELSE <<[index |-> idx, start |-> mem_start + idx * PageSize,
            size |-> pgs[idx].span_size]>>
         \o SpansFrom(idx + pgs[idx].span_size, mem_start, pgs)

spans(mem_start, pgs) == SpansFrom(FirstPage, mem_start, pgs)

\* bisect.bisect_right(a, x) with lo, hi as in the library's loop
RECURSIVE Bisect(_, _, _, _)
Bisect(a, x, lo, hi) ==
    IF lo >= hi THEN lo
    ELSE LET mid == (lo + hi) \div 2
         IN  \* the list is 1-based here: a[mid + 1] is Python's a[mid]
             IF x < a[mid + 1] THEN Bisect(a, x, lo, mid)
             ELSE Bisect(a, x, mid + 1, hi)

bisect_right(a, x) == Bisect(a, x, 0, Len(a))

\* span_checker.__init__: _starts; _start_to_span maps a start to the last span
\* listed with it
starts(span_list) == [i \in DOMAIN span_list |-> span_list[i].start]

start_to_span(span_list, span_start) ==
    LET is == {i \in DOMAIN span_list : span_list[i].start = span_start}
    IN  span_list[CHOOSE i \in is : \A j \in is : j <= i]

\* a test that lets the first byte after the span through
BeyondSpanStrict(s, p) == s.start + s.size * PageSize < p

\* the test of get_span that turns the candidate span down
BeyondSpan(s, p) == s.start + s.size * PageSize <= p

\* span_checker.get_span(ptr): None, or the span
get_span(span_list, p) ==
    LET idx == bisect_right(starts(span_list), p)
    IN  IF idx = 0 THEN None
        ELSE LET s == start_to_span(span_list, starts(span_list)[idx])
             IN  IF BeyondSpan(s, p) THEN None ELSE Some(s)

(***************************************************************************)
(* The span table alone: any page array, any address.                      *)
(***************************************************************************)
\* the thread whose memory the span table is built for
SpanThread == 1

\* the addresses asked for: from below the region to beyond its longest span
SpanPtrs == (MemStart(SpanThread) - 1)..(MemStart(SpanThread) + RegionStride)

GraphIdle ==
    /\ address = 0
    /\ max_depth = 0
    /\ max_vertices = 0
    /\ timeout_seconds = 0
    /\ vertices = {}
    /\ edges = <<>>
    /\ current_objects = <<>>
    /\ next_objects = <<>>
    /\ depth = 0
    /\ stop = FALSE
    /\ pc = "idle"
    /\ ci = 0
    /\ current_obj = 0
    /\ hits = <<>>
    /\ heap = {}
    /\ found = {}
    /\ scanned = <<>>
    /\ late = FALSE
    /\ dot_file = "absent"

SpanInit ==
    /\ \E sz \in [PageIdx -> 0..MaxSpan] :
         pages = [i \in PageIdx |-> Page(sz[i], FALSE, 0, 0, <<>>)]
    /\ pools = <<>>
    /\ has_reactor = [t \in {SpanThread} |-> TRUE]
    /\ selected = SpanThread
    /\ op = "none"
    /\ ptr = 0
    /\ orig = SpanThread
    /\ span_found = None
    /\ ptr_meta = <<>>
    /\ outcome = "none"
    /\ GraphIdle
    /\ OtherIdle

\* span_checker().get_span(p) in the selected thread
GetSpan ==
    /\ op = "none"
    /\ \E p \in SpanPtrs :
         /\ ptr' = p
         /\ span_found' = get_span(spans(MemStart(selected), pages), p)
    /\ op' = "get_span"
    /\ outcome' = "returned"
    /\ UNCHANGED <<pages, pools, has_reactor, selected, orig, ptr_meta>>
    /\ UNCHANGED <<graphVars, otherVars>>

SpanNext == GetSpan

SpecSpan == SpanInit /\ [][SpanNext]_vars

(***************************************************************************)
(* Bounds of the pointer-classifier model.                                 *)
(***************************************************************************)
\* gdb threads are 1..NumThreads
NumThreads == 2
\* pages of a reactor thread's memory that the allocator has handed out as spans
HeapPages == 2
\* greatest number of free objects on the free lists
MaxFree == 1

Threads == 1..NumThreads
\* small_pool ids; 0 is the null pool pointer
PoolIds == {1, 2}
\* small_pool::_object_size of the two pools
ObjectSize(pool) == IF pool = 1 THEN 2 ELSE 3

(***************************************************************************)
(* span: the methods analyze uses                                          *)
(***************************************************************************)
is_free(pgs, s) == pgs[s.index].free

is_small(pgs, s) == ~is_free(pgs, s) /\ pgs[s.index].pool # 0

\* used_span_size: the for loop from page idx of the span on
RECURSIVE UsedFrom(_, _, _)
UsedFrom(pgs, s, idx) ==
    IF idx >= s.size THEN 0
    ELSE LET page == IF s.index + idx \in DOMAIN pgs THEN pgs[s.index + idx]
                     ELSE Page(0, FALSE, 0, 0, <<>>)
         IN  IF page.pool = 0 \/ page.pool # pgs[s.index].pool \/ page.offset_in_span # idx
             THEN 0
             ELSE 1 + UsedFrom(pgs, s, idx + 1)

\* a count that takes every page of the span for used
whole_span_size(pgs, s) == pgs[s.index].span_size

used_span_size(pgs, s) ==
    IF pgs[s.index].free THEN 0
    ELSE IF pgs[s.index].pool = 0 THEN pgs[s.index].span_size
    ELSE UsedFrom(pgs, s, 0)

(***************************************************************************)
(* reactor_threads, seastar_memory_layout                                  *)
(***************************************************************************)
\* get_seastar_memory_start_and_size() in thread t
MemSize == NrPages * PageSize

\* seastar_memory_layout: the loop over reactor_threads() from thread t on; every
\* thread is switched to, the reactor threads are listed; the exhausted generator
\* switches back to the thread selected at its start
RECURSIVE LayoutFrom(_, _, _)
LayoutFrom(t, reactor, before) ==
    IF t > NumThreads THEN [results |-> <<>>, selected |-> before]
    ELSE LET rest == LayoutFrom(t + 1, reactor, before)
         IN  IF reactor[t]
             THEN [rest EXCEPT !.results = <<<<t, MemStart(t), MemSize>>>> \o rest.results]
             ELSE rest

seastar_memory_layout(reactor, before) == LayoutFrom(1, reactor, before)

(***************************************************************************)
(* pointer_metadata                                                        *)
(***************************************************************************)
init_seastar_ptr(p, thread) ==
    [ptr |-> p, thread |-> Some(thread), is_containing_page_free |-> Some(FALSE),
     is_small |-> Some(FALSE), is_live |-> Some(FALSE), is_lsa |-> Some(FALSE),
     size |-> Some(0), offset_in_object |-> 0]

\* a generic pointer set up with the flags of a seastar pointer
init_generic_ptr_flags(p, speculative_size) ==
    [ptr |-> p, thread |-> None, is_containing_page_free |-> Some(FALSE),
     is_small |-> Some(FALSE), is_live |-> Some(FALSE), is_lsa |-> Some(FALSE),
     size |-> speculative_size, offset_in_object |-> 0]

init_generic_ptr(p, speculative_size) ==
    [ptr |-> p, thread |-> None, is_containing_page_free |-> None,
     is_small |-> None, is_live |-> None, is_lsa |-> None,
     size |-> speculative_size, offset_in_object |-> 0]

\* pointer_metadata(ptr, arg): arg is None or Some(thread), as analyze passes it
pointer_metadata(p, arg) ==
    IF arg # None THEN init_seastar_ptr(p, arg[1]) ELSE init_generic_ptr(p, arg)

is_managed_by_seastar(m) == m.thread # None

\* mark_free: the assignment to _is_live leaves is_live as it is
mark_free(m) == [m EXCEPT !.is_containing_page_free = Some(TRUE)]

(***************************************************************************)
(* scylla_ptr.analyze                                                      *)
(***************************************************************************)
\* the first entry of the layout whose region holds p: None or Some(thread)
RECURSIVE OwnerIn(_, _)
OwnerIn(layout, p) ==
    IF layout = <<>> THEN None
    ELSE IF p >= Head(layout)[2] /\ p < Head(layout)[2] + Head(layout)[3]
         THEN Some(Head(layout)[1])
         ELSE OwnerIn(Tail(layout), p)

\* a test that takes the listed address alone for the free object
InFreeObjectHead(p, next_free, object_size) == p = next_free

\* the test of the free-list walks
InFreeObject(p, next_free, object_size) == p >= next_free /\ p < next_free + object_size

\* while next_free: ... over a free list (a finite chain of object addresses)
RECURSIVE OnFreeList(_, _, _)
OnFreeList(chain, p, object_size) ==
    IF chain = <<>> THEN FALSE
    ELSE IF InFreeObject(p, Head(chain), object_size) THEN TRUE
    ELSE OnFreeList(Tail(chain), p, object_size)

\* the free lists hold the addresses of thread t's memory
Chain(t, rel) == [i \in DOMAIN rel |-> MemStart(t) + rel[i]]

\* the classification of p inside span s of thread t (lines 1637-1674)
Classify(m, t, s, p) ==
    LET offset_in_span == p - s.start
    IN  IF offset_in_span >= used_span_size(pages, s) * PageSize
        THEN mark_free(m)
        ELSE IF is_small(pages, s)
        THEN LET pool == pages[s.index].pool
                 object_size == pools[pool].object_size
                 free == \/ OnFreeList(Chain(t, pools[pool].free), p, object_size)
                         \/ OnFreeList(Chain(t, pages[s.index].freelist), p, object_size)
                 small == [m EXCEPT !.size = Some(object_size), !.is_small = Some(TRUE)]
             IN  IF free
                 THEN [small EXCEPT !.is_live = Some(FALSE)]
                 ELSE [small EXCEPT !.is_live = Some(TRUE),
                                    !.offset_in_object = offset_in_span % object_size]
        ELSE [m EXCEPT !.is_small = Some(FALSE),
                       !.is_live = Some(~is_free(pages, s)),
                       !.size = Some(s.size * PageSize),
                       !.offset_in_object = p - s.start]

\* analyze(p) up to line 1674, called with thread before selected. The result:
\* outcome, ptr_meta and the thread selected.
classify_ptr(p, before) ==
    LET layout == seastar_memory_layout(has_reactor, before)
        owning_thread == OwnerIn(layout.results, p)
        m == pointer_metadata(p, owning_thread)
    IN  IF owning_thread = None
        THEN [outcome |-> "returned", ptr_meta |-> m, selected |-> layout.selected,
              classified |-> FALSE]
        ELSE LET t == owning_thread[1]
                 found_span == get_span(spans(MemStart(t), pages), p)
             IN  IF found_span = None
                 THEN \* span.start on None
                      [outcome |-> "AttributeError", ptr_meta |-> None, selected |-> t,
                       classified |-> FALSE]
                 ELSE [outcome |-> "returned",
                       ptr_meta |-> Classify(m, t, found_span[1], p),
                       selected |-> t, classified |-> TRUE]

\* lines 1676-1684: lsa is what the segment descriptor of p says
set_is_lsa(r, lsa) ==
    IF r.classified THEN [r EXCEPT !.ptr_meta.is_lsa = Some(lsa)] ELSE r

(***************************************************************************)
(* The allocator state analyze reads: page arrays made of spans.           *)
(***************************************************************************)
\* what a span of len pages can be: a page with span length 0, a free span, a
\* large span, or a span of a small pool whose first used pages are the pool's and
\* whose other pages carry no pool, another pool, or a wrong offset_in_span
SpanKinds(len) ==
    (IF len = 1 THEN {[kind |-> "none", len |-> 1, pool |-> 0, used |-> 0, tail |-> "-"]}
     ELSE {})
    \cup {[kind |-> k, len |-> len, pool |-> 0, used |-> 0, tail |-> "-"] :
             k \in {"free", "large"}}
    \cup {[kind |-> "small", len |-> len, pool |-> pl, used |-> len, tail |-> "-"] :
             pl \in PoolIds}
    \cup {[kind |-> "small", len |-> len, pool |-> pl, used |-> u, tail |-> tl] :
             pl \in PoolIds, u \in 1..(len - 1), tl \in {"nopool", "otherpool", "offset"}}

\* the ways to cut pages i..LastHeapPage into spans
LastHeapPage == IF HeapPages < NrPages - 1 THEN HeapPages ELSE NrPages - 1

RECURSIVE Tilings(_)
Tilings(i) ==
    IF i > LastHeapPage THEN {<<>>}
    ELSE UNION {{<<k>> \o rest : k \in SpanKinds(len), rest \in Tilings(i + len)} :
                  len \in {l \in 1..MaxSpan : i + l - 1 <= LastHeapPage}}

\* the first page of the k-th span of tiling tl
RECURSIVE HeadOf(_, _)
HeadOf(tl, k) == IF k = 1 THEN FirstPage ELSE HeadOf(tl, k - 1) + tl[k - 1].len

\* the descriptor of page i under tiling tl with per-span free lists fl
PageUnder(tl, fl, i) ==
    IF \E k \in DOMAIN tl : HeadOf(tl, k) <= i /\ i < HeadOf(tl, k) + tl[k].len
    THEN LET k == CHOOSE j \in DOMAIN tl : HeadOf(tl, j) <= i /\ i < HeadOf(tl, j) + tl[j].len
             sp == tl[k]
             off == i - HeadOf(tl, k)
         IN  IF sp.kind = "none" THEN Page(0, FALSE, 0, 0, <<>>)
             ELSE IF sp.kind = "free" THEN Page(IF off = 0 THEN sp.len ELSE 0, TRUE, 0, 0, <<>>)
             ELSE IF sp.kind = "large" THEN Page(IF off = 0 THEN sp.len ELSE 0, FALSE, 0, 0, <<>>)
             ELSE Page(IF off = 0 THEN sp.len ELSE 0, FALSE,
                       IF off < sp.used THEN sp.pool
                       ELSE IF sp.tail = "nopool" THEN 0
                       ELSE IF sp.tail = "otherpool" THEN 3 - sp.pool
                       ELSE sp.pool,
                       IF off < sp.used \/ sp.tail # "offset" THEN off ELSE 0,
                       IF off = 0 THEN fl[k] ELSE <<>>)
    ELSE Page(0, FALSE, 0, 0, <<>>)

\* the object slots of the k-th span, as offsets from the start of the memory
Slots(tl, k) ==
    IF tl[k].kind # "small" THEN {}
    ELSE {HeadOf(tl, k) * PageSize + n * ObjectSize(tl[k].pool) :
            n \in {j \in 0..(tl[k].used * PageSize) :
                      (j + 1) * ObjectSize(tl[k].pool) <= tl[k].used * PageSize}}

\* a set of addresses as a chain, lowest first
RECURSIVE ChainOf(_)
ChainOf(S) ==
    IF S = {} THEN <<>>
    ELSE LET lo == CHOOSE x \in S : \A y \in S : x <= y
         IN  <<lo>> \o ChainOf(S \ {lo})

PtrInit ==
    /\ \E tl \in Tilings(FirstPage) :
         LET slots == UNION {Slots(tl, k) : k \in DOMAIN tl}
         IN  \E onPool \in SUBSET slots, onSpan \in SUBSET slots :
               /\ onPool \cap onSpan = {}
               /\ Cardinality(onPool) + Cardinality(onSpan) <= MaxFree
               /\ pages = [i \in PageIdx |->
                             PageUnder(tl, [k \in DOMAIN tl |-> ChainOf(Slots(tl, k) \cap onSpan)], i)]
               /\ pools = [pl \in PoolIds |->
                             [object_size |-> ObjectSize(pl),
                              free |-> ChainOf(UNION {Slots(tl, k) \cap onPool :
                                                  k \in {j \in DOMAIN tl : tl[j].pool = pl}})]]
    /\ has_reactor \in [Threads -> BOOLEAN]
    /\ selected \in Threads
    /\ op = "none"
    /\ ptr = 0
    /\ orig = selected
    /\ span_found = None
    /\ ptr_meta = None
    /\ outcome = "none"
    /\ GraphIdle
    /\ OtherIdle

\* the addresses asked about: every address of a thread's memory, the address
\* before it and the address after it
Ptrs == UNION {(MemStart(t) - 1)..(MemStart(t) + MemSize) : t \in Threads}

\* scylla ptr / scylla_ptr.analyze(p), called once with some thread selected;
\* the segment descriptor is read only on the path that reaches line 1676
Analyze ==
    /\ op = "none"
    /\ \E p \in Ptrs :
         \E c \in {classify_ptr(p, selected)} :
             \E r \in {set_is_lsa(c, lsa) : lsa \in (IF c.classified THEN BOOLEAN ELSE {FALSE})} :
                 /\ ptr' = p
                 /\ outcome' = r.outcome
                 /\ ptr_meta' = r.ptr_meta
                 /\ selected' = r.selected
    /\ op' = "analyze"
    /\ orig' = selected
    /\ UNCHANGED <<pages, pools, has_reactor, span_found>>
    /\ UNCHANGED <<graphVars, otherVars>>

PtrNext == Analyze

SpecPtr == PtrInit /\ [][PtrNext]_vars

(***************************************************************************)
(* Properties of the span table.                                           *)
(***************************************************************************)
\* the span table of the thread the query ran in
SpanList == spans(MemStart(selected), pages)

SpanEnd(s) == s.start + s.size * PageSize

\* the spans whose half-open byte range holds p, found by looking at every span
Containing(p) == {k \in DOMAIN SpanList : SpanList[k].start <= p /\ p < SpanEnd(SpanList[k])}

\* the spans that start at or below p
Candidates(p) == {k \in DOMAIN SpanList : SpanList[k].start <= p}

InRegion(t, p) == MemStart(t) <= p /\ p < MemStart(t) + NrPages * PageSize

PageOf(t, p) == (p - MemStart(t)) \div PageSize

\* the spans that reach over page i
Cover(i) == {k \in DOMAIN SpanList :
                SpanList[k].index <= i /\ i < SpanList[k].index + SpanList[k].size}

\* C6: get_span(ptr) is the span with the greatest start <= ptr if ptr lies before
\* that span's end and None otherwise (also when no span starts at or below ptr);
\* this is the result of a linear search for the one span whose byte range holds ptr.
C6_GetSpanIsLinearSearch ==
    op = "get_span" =>
        /\ Cardinality(Containing(ptr)) <= 1
        /\ span_found = IF Containing(ptr) = {} THEN None
                        ELSE Some(SpanList[CHOOSE k \in Containing(ptr) : TRUE])
        /\ Candidates(ptr) = {} => span_found = None
        /\ Candidates(ptr) # {} =>
             LET c == CHOOSE k \in Candidates(ptr) :
                          \A j \in Candidates(ptr) : SpanList[j].start <= SpanList[k].start
             IN  /\ ptr < SpanEnd(SpanList[c]) => span_found = Some(SpanList[c])
                 /\ ptr >= SpanEnd(SpanList[c]) => span_found = None

\* a later span of a table of several spans is found
C6_Witness ==
    /\ op = "get_span"
    /\ Len(SpanList) >= 2
    /\ span_found # None
    /\ span_found[1].index > 1

\* C7 as claimed: the spans partition the region, every page (page 0 and pages with
\* span length 0 too) lies in exactly one span, get_span finds a span everywhere
C7_SpansCoverEveryPage ==
    op = "get_span" =>
        /\ \A i \in PageIdx : Cardinality(Cover(i)) = 1
        /\ InRegion(selected, ptr) => span_found # None

\* C7: the spans are disjoint and listed by strictly increasing start; each starts at
\* a page >= 1 whose descriptor carries its (nonzero) length; a page lies in at most
\* one span, page 0 in none, and a page >= 1 in none only if its descriptor carries
\* span length 0; get_span finds no span exactly for the addresses of such pages.
C7_SpansDisjointOrdered ==
    /\ \A k \in 1..(Len(SpanList) - 1) : SpanEnd(SpanList[k]) <= SpanList[k + 1].start
    /\ \A k \in DOMAIN SpanList :
         /\ SpanList[k].index >= 1
         /\ SpanList[k].start = MemStart(selected) + SpanList[k].index * PageSize
         /\ SpanList[k].size = pages[SpanList[k].index].span_size
         /\ SpanList[k].size > 0
    /\ Cover(0) = {}
    /\ \A i \in PageIdx :
         /\ Cardinality(Cover(i)) <= 1
         /\ (i >= 1 /\ Cover(i) = {}) => pages[i].span_size = 0
    /\ (op = "get_span" /\ InRegion(selected, ptr)) =>
         (span_found = None <=> Cover(PageOf(selected, ptr)) = {})

\* an address of a page >= 1 between two spans has no span
C7_Witness ==
    /\ op = "get_span"
    /\ InRegion(selected, ptr)
    /\ PageOf(selected, ptr) >= 1
    /\ span_found = None
    /\ \E k \in DOMAIN SpanList : SpanList[k].start > ptr
    /\ \E k \in DOMAIN SpanList : SpanList[k].start < ptr


(***************************************************************************)
(* Properties of scylla_ptr.analyze (SpecPtr)                              *)
(***************************************************************************)
\* the reactor threads whose memory holds p
Owners(p) == {t \in Threads : has_reactor[t] /\ InRegion(t, p)}

\* the spans of thread t's table that hold p
Holding(t, p) ==
    LET sl == spans(MemStart(t), pages)
    IN  {sl[k] : k \in {j \in DOMAIN sl : sl[j].start <= p /\ p < SpanEnd(sl[j])}}

\* span s belongs to a small pool and p lies in its used part
InUsedSmall(s, p) ==
    /\ ~pages[s.index].free
    /\ pages[s.index].pool # 0
    /\ p - s.start < used_span_size(pages, s) * PageSize

\* the addresses listed on the free list of the pool of s and on the free list of s
Listed(t, s) ==
    LET pool == Chain(t, pools[pages[s.index].pool].free)
        own == Chain(t, pages[s.index].freelist)
    IN  {pool[i] : i \in DOMAIN pool} \cup {own[i] : i \in DOMAIN own}

PoolObjectSize(s) == pools[pages[s.index].pool].object_size

\* analyze has returned a classification of an address in the used part of a
\* small-pool span s of thread t
ClassifiedSmall(t, s) ==
    /\ op = "analyze"
    /\ outcome = "returned"
    /\ t \in Owners(ptr)
    /\ s \in Holding(t, ptr)
    /\ InUsedSmall(s, ptr)

\* C5: analyze leaves the selected thread equal to the thread selected before
\* the call, on every exit path (unowned address, classified address, error).
C5_AnalyzeRestoresThread == op = "analyze" => selected = orig

\* C8 (as stated): in the used part of a small-pool span with object size S the
\* addresses listed on the pool's or the span's free list are classified free,
\* and every other address is classified live with size S and
\* offset_in_object = (address - span.start) mod S.
C8_ListedFreeOthersLive ==
    \A t \in Threads : \A s \in Holding(t, ptr) :
        ClassifiedSmall(t, s) =>
            /\ ptr \in Listed(t, s) => ptr_meta.is_live = Some(FALSE)
            /\ ptr \notin Listed(t, s) =>
                 /\ ptr_meta.is_live = Some(TRUE)
                 /\ ptr_meta.size = Some(PoolObjectSize(s))
                 /\ ptr_meta.offset_in_object = (ptr - s.start) % PoolObjectSize(s)

\* C8 (amended): in the used part of a small-pool span with object size S the
\* result is small with size S; an address inside an object listed on the pool's
\* or the span's free list, that is in [f, f + S) for a listed f, is classified
\* free, and every other address is classified live with
\* offset_in_object = (address - span.start) mod S.
C8_FreeObjectsFreeOthersLive ==
    \A t \in Owners(ptr) : \A s \in Holding(t, ptr) :
        (op = "analyze" /\ outcome = "returned" /\ InUsedSmall(s, ptr)) =>
            LET S == PoolObjectSize(s)
                inFree == \E f \in Listed(t, s) : f <= ptr /\ ptr < f + S
            IN  /\ ptr_meta.is_small = Some(TRUE)
                /\ ptr_meta.size = Some(S)
                /\ inFree => ptr_meta.is_live = Some(FALSE)
                /\ ~inFree =>
                     /\ ptr_meta.is_live = Some(TRUE)
                     /\ ptr_meta.offset_in_object = (ptr - s.start) % S

\* an address inside a listed free object, past its first byte, classified free,
\* in a span that also leaves room for another object
C8_Witness ==
    \E t \in Threads : \E s \in Holding(t, ptr) :
        /\ ClassifiedSmall(t, s)
        /\ ptr \notin Listed(t, s)
        /\ \E f \in Listed(t, s) : f < ptr /\ ptr < f + PoolObjectSize(s)
        /\ ptr_meta.is_live = Some(FALSE)
        /\ used_span_size(pages, s) * PageSize > PoolObjectSize(s)

\* C9: for every address inside the memory of a reactor thread analyze returns
\* a classification and does not fail, also where the span table has no span
\* for the address (page 0, pages with span length 0).
C9_AnalyzeNeverFailsForOwned ==
    (op = "analyze" /\ Owners(ptr) # {}) => outcome = "returned"

\* the flags and fields of a degraded classification, the size left aside
Degraded(m) ==
    /\ m.thread = None
    /\ ~is_managed_by_seastar(m)
    /\ m.is_live = None
    /\ m.is_small = None
    /\ m.is_lsa = None
    /\ m.is_containing_page_free = None
    /\ m.offset_in_object = 0

\* C10 (as stated): for an address in no reactor thread's memory analyze gives a
\* degraded classification (no owner, no liveness, small-pool or LSA
\* information, offset 0) whose size is a speculative size supplied by the caller.
C10_UnownedCarriesSpeculativeSize ==
    (op = "analyze" /\ Owners(ptr) = {}) =>
        /\ outcome = "returned"
        /\ Degraded(ptr_meta)
        /\ ptr_meta.size # None

\* C10 (amended): for an address in no reactor thread's memory analyze gives a
\* degraded classification (no owner, no liveness, small-pool or LSA
\* information, offset 0) whose size is none: analyze is given no size.
C10_UnownedIsDegradedWithoutSize ==
    (op = "analyze" /\ Owners(ptr) = {}) =>
        /\ outcome = "returned"
        /\ Degraded(ptr_meta)
        /\ ptr_meta.size = None

\* an address between the memories of two reactor threads, analyzed
C10_Witness ==
    /\ op = "analyze"
    /\ Owners(ptr) = {}
    /\ \E t, u \in Threads : t < u /\ has_reactor[t] /\ has_reactor[u]
                              /\ MemStart(t) + MemSize <= ptr /\ ptr < MemStart(u)
    /\ ptr_meta # None
    /\ ptr_meta.thread = None


(***************************************************************************)
(* lsa_object_descriptor                                                   *)
(***************************************************************************)
\* greatest number of bytes a descriptor is encoded in
MaxDescBytes == 3
\* payloads tried are k and 64 * k for k up to MaxPayload
MaxPayload == 40

RECURSIVE Pow2(_)
Pow2(n) == IF n = 0 THEN 1 ELSE 2 * Pow2(n - 1)

\* b & 0x40, b & 0x80 of a byte
Bit6(b) == (b \div 64) % 2 = 1
Bit7(b) == (b \div 128) % 2 = 1

\* a mask that keeps bit 6 with the value bits
Low7(b) == b % 128

\* b & 0x3f
Low6(b) == b % 64

Desc(error, value, desc_pos, obj_pos) ==
    [error |-> error, value |-> value, desc_pos |-> desc_pos, obj_pos |-> obj_pos]

\* decode: the while loop. value is below 2^(shift + 6) before each pass, so
\* value |= c << (shift + 6) adds c * 2^(shift + 6). A byte outside the memory
\* planted is not readable.
RECURSIVE DecodeLoop(_, _, _, _, _, _)
DecodeLoop(mem, start_pos, pos, b, value, shift) ==
    IF Bit7(b) THEN Desc("none", value, start_pos, pos)
    ELSE IF pos \notin DOMAIN mem THEN Desc("MemoryError", 0, start_pos, pos)
    ELSE DecodeLoop(mem, start_pos, pos + 1, mem[pos],
                    value + Low6(mem[pos]) * Pow2(shift + 6), shift + 6)

\* lsa_object_descriptor.decode(pos)
decode(mem, pos) ==
    IF pos \notin DOMAIN mem THEN Desc("MemoryError", 0, pos, pos)
    ELSE IF ~Bit6(mem[pos]) THEN Desc("Exception", 0, pos, pos + 1)
    ELSE DecodeLoop(mem, pos, pos + 1, mem[pos], Low6(mem[pos]), 0)

is_live(d) == d.value % 2 = 1

\* value / 2 on a gdb.Value: the integer quotient
dead_size(d) == d.value \div 2

\* the index into static_migrators: value >> 1
migrator(d) == d.value \div 2

\* the descriptor wire format: value in n bytes, 6 value bits a byte, lowest
\* first; bit 6 set in the first byte (and, with mark, in the others), bit 7 set
\* in the last byte only
Encode(value, n, mark) ==
    [i \in 1..n |->
        ((value \div Pow2(6 * (i - 1))) % 64)
        + (IF i = 1 \/ mark THEN 64 ELSE 0)
        + (IF i = n THEN 128 ELSE 0)]

\* the byte counts value can be encoded in
DescLengths(value) == {n \in 1..MaxDescBytes : value < Pow2(6 * n)}

Payloads == {k * scale : k \in 0..MaxPayload, scale \in {1, 64}}

\* bytes laid at addresses from pos on
At(pos, bytes) == [a \in pos..(pos + Len(bytes) - 1) |-> bytes[a - pos + 1]]


(***************************************************************************)
(* One descriptor: any liveness flag and payload, encoded and decoded.     *)
(***************************************************************************)
\* the addresses the descriptor is laid at
DescStarts == {0, 5}

WireValue(live, payload) == payload * 2 + (IF live THEN 1 ELSE 0)

DescInit ==
    /\ \E live \in BOOLEAN, payload \in Payloads, mark \in BOOLEAN, pos \in DescStarts :
         \E n \in DescLengths(WireValue(live, payload)) :
            /\ planted = <<[live |-> live, payload |-> payload, n |-> n, frag |-> 0]>>
            /\ lsa_mem = At(pos, Encode(WireValue(live, payload), n, mark))
            /\ seg = pos
    /\ desc = <<>>
    /\ printed = <<>>
    /\ lsa_pc = "decode"
    /\ GraphIdle
    /\ QueryIdle
    /\ FiberIdle
    /\ HistIdle
    /\ ProfIdle
    /\ TaskIdle
    /\ ResolveIdle
    /\ CtxIdle

\* lsa_object_descriptor.decode(seg)
DecodeDesc ==
    /\ lsa_pc = "decode"
    /\ desc' = decode(lsa_mem, seg)
    /\ lsa_pc' = "decoded"
    /\ UNCHANGED <<lsa_mem, planted, seg, printed>>
    /\ UNCHANGED lsaFrame

DescNext == DecodeDesc

SpecDesc == DescInit /\ [][DescNext]_vars

\* C11: a descriptor encoded in the wire format from (is_live, payload) decodes
\* to the same liveness flag and the same payload (migrator id when live, dead
\* run length when dead), and obj_pos is the position just past its last byte.
C11_DescriptorRoundTrip ==
    lsa_pc = "decoded" =>
        /\ desc.error = "none"
        /\ desc.desc_pos = seg
        /\ is_live(desc) = planted[1].live
        /\ planted[1].live => migrator(desc) = planted[1].payload
        /\ ~planted[1].live => dead_size(desc) = planted[1].payload
        /\ desc.obj_pos = seg + planted[1].n

\* a live descriptor of three bytes decoded, the payload taking all three
C11_Witness ==
    /\ lsa_pc = "decoded"
    /\ planted[1].live
    /\ planted[1].n = 3
    /\ planted[1].payload >= 2048
    /\ migrator(desc) = planted[1].payload


(***************************************************************************)
(* scylla lsa-segment: the walk over a segment                             *)
(***************************************************************************)
\* logalloc::segment::size is 2^SegBits bytes
SegBits == 3
\* ::debug::logalloc_alignment is 2^AlignBits bytes
AlignBits == 1
\* greatest size of a live object
MaxObject == 3

SegmentSize == Pow2(SegBits)
logalloc_alignment == Pow2(AlignBits)
logalloc_alignment_mask == logalloc_alignment - 1

\* x & ~mask for a mask 2^k - 1
AndNot(x, mask) == x - (x % (mask + 1))

\* (char*)((seg + mask) & ~mask)
AlignUp(x) == AndNot(x + logalloc_alignment_mask, logalloc_alignment_mask)

\* the segment walked is the second of the segment store
SegBase == SegmentSize
SegEnd == SegBase + SegmentSize

\* static_migrators: migrator 0 is standard_migrator<blob_storage>, migrator k
\* up to MaxObject is that of a type of sizeof k; no other index is listed
\* sizeof(blob_storage): the model's blob header is its frag_size field
BlobHeader == 1

\* lsa_object_descriptor.live_size
live_size(mem, d) ==
    IF migrator(d) = 0
    THEN BlobHeader + (IF d.obj_pos \in DOMAIN mem THEN mem[d.obj_pos] ELSE 0)
    ELSE IF migrator(d) \in 1..MaxObject THEN migrator(d)
    ELSE 0

\* an end position that counts a dead run from the end of its descriptor
end_pos_past_descriptor(mem, d) ==
    IF is_live(d) THEN d.obj_pos + live_size(mem, d) ELSE d.obj_pos + dead_size(d)

\* lsa_object_descriptor.end_pos
end_pos(mem, d) ==
    IF is_live(d) THEN d.obj_pos + live_size(mem, d) ELSE d.desc_pos + dead_size(d)

(***************************************************************************)
(* Segments as the allocator lays them out: records at aligned positions,  *)
(* a live record a descriptor and its object, a dead record a descriptor   *)
(* whose run is counted from the descriptor's own position.                *)
(***************************************************************************)
Rec(live, payload, n, frag) == [live |-> live, payload |-> payload, n |-> n, frag |-> frag]

ObjSize(r) == IF r.payload = 0 THEN BlobHeader + r.frag ELSE r.payload

RecExtent(r) == IF r.live THEN r.n + ObjSize(r) ELSE r.payload

Zeros(k) == [i \in 1..k |-> 0]

RecBytes(r) ==
    Encode(WireValue(r.live, r.payload), r.n, FALSE)
    \o (IF ~r.live THEN Zeros(r.payload - r.n)
        ELSE IF r.payload = 0 THEN <<r.frag>> \o Zeros(r.frag)
        ELSE Zeros(r.payload))

\* the descriptor of a fixed-size object takes one byte, or two where the
\* allocator pads; the others take one
SegDescLengths == {1, 2}

\* the records that fit into room bytes: fixed-size objects, blobs, and dead
\* runs that end at an aligned position or one byte before it
Records(room) ==
    {r \in {Rec(TRUE, id, n, 0) : id \in 1..MaxObject, n \in SegDescLengths}
           \cup {Rec(TRUE, 0, 1, frag) : frag \in 0..(MaxObject - BlobHeader)}
           \cup {Rec(FALSE, len, 1, 0) :
                    len \in {l \in 1..room : (l + 1) % logalloc_alignment <= 1}} :
        RecExtent(r) <= room}

RECURSIVE Layouts(_)
Layouts(pos) ==
    IF pos >= SegEnd THEN {<<>>}
    ELSE UNION {{<<r>> \o rest : rest \in Layouts(AlignUp(pos + RecExtent(r)))} :
                  r \in Records(SegEnd - pos)}

RECURSIVE LayoutBytes(_, _)
LayoutBytes(layout, pos) ==
    IF layout = <<>> THEN <<>>
    ELSE LET bytes == RecBytes(Head(layout))
             next == AlignUp(pos + Len(bytes))
         IN  bytes \o Zeros(next - (pos + Len(bytes))) \o LayoutBytes(Tail(layout), next)

\* the addresses scylla lsa-segment is called with: the first and the last
\* byte of the segment
LsaArgs == {SegBase, SegEnd - 1}

LsaInit ==
    /\ \E layout \in Layouts(SegBase) :
         /\ planted = layout
         /\ lsa_mem = At(SegBase, LayoutBytes(layout, SegBase))
    /\ seg \in LsaArgs
    /\ desc = <<>>
    /\ printed = <<>>
    /\ lsa_pc = "invoke"
    /\ GraphIdle
    /\ QueryIdle
    /\ FiberIdle
    /\ HistIdle
    /\ ProfIdle
    /\ TaskIdle
    /\ ResolveIdle
    /\ CtxIdle

\* invoke up to the loop: seg = ptr & ~(segment::size - 1)
LsaInvoke ==
    /\ lsa_pc = "invoke"
    /\ seg' = AndNot(seg, SegmentSize - 1)
    /\ lsa_pc' = "while"
    /\ UNCHANGED <<lsa_mem, planted, desc, printed>>
    /\ UNCHANGED lsaFrame

\* the lines of output the loop is followed for; a loop that advances prints
\* fewer
MaxPrinted == SegmentSize

\* one pass of while seg < seg_end: decode, print, move to the aligned end
LsaStep ==
    /\ lsa_pc = "while"
    /\ seg < SegEnd
    /\ Len(printed) < MaxPrinted
    /\ \E d \in {decode(lsa_mem, seg)} :
         /\ desc' = d
         /\ IF d.error # "none"
            THEN /\ lsa_pc' = "raised"
                 /\ UNCHANGED <<seg, printed>>
            ELSE /\ printed' = Append(printed,
                        [desc_pos |-> d.desc_pos, obj_pos |-> d.obj_pos,
                         live |-> is_live(d),
                         size |-> IF is_live(d) THEN live_size(lsa_mem, d) ELSE dead_size(d),
                         end_pos |-> end_pos(lsa_mem, d)])
                 /\ seg' = AlignUp(end_pos(lsa_mem, d))
                 /\ lsa_pc' = "while"
    /\ UNCHANGED <<lsa_mem, planted>>
    /\ UNCHANGED lsaFrame

\* the loop test fails: invoke returns
LsaExit ==
    /\ lsa_pc = "while"
    /\ seg >= SegEnd
    /\ lsa_pc' = "done"
    /\ UNCHANGED <<lsa_mem, planted, seg, desc, printed>>
    /\ UNCHANGED lsaFrame

LsaNext == LsaInvoke \/ LsaStep \/ LsaExit

SpecLsa == LsaInit /\ [][LsaNext]_vars


\* the least multiple of the alignment that is not below x
RoundedUp(x) == CHOOSE y \in x..(x + logalloc_alignment - 1) : y % logalloc_alignment = 0

\* the sizes of the live records laid out, in segment order
RECURSIVE PlantedLive(_)
PlantedLive(layout) ==
    IF layout = <<>> THEN <<>>
    ELSE (IF Head(layout).live THEN <<ObjSize(Head(layout))>> ELSE <<>>)
         \o PlantedLive(Tail(layout))

\* the sizes of the live records printed, in print order
RECURSIVE PrintedLive(_)
PrintedLive(ds) ==
    IF ds = <<>> THEN <<>>
    ELSE (IF Head(ds).live THEN <<Head(ds).size>> ELSE <<>>) \o PrintedLive(Tail(ds))

NumTasks == 3
\* greatest --max-depth tried; -1 is the default, unlimited
MaxFiberDepth == 3

\* self._vptr_type.sizeof: the size of uintptr_t
vptr_sizeof == 8

FiberObjs == 1..(NumTasks + 1)
\* the words of an object behind its first word that the model gives a content
WordIdx == 1..3
\* objects lie four words apart; address 0 is the null pointer
ObjStride == 4 * vptr_sizeof
ObjAddr(k) == k * ObjStride
ObjAt(a) == IF \E k \in FiberObjs : ObjAddr(k) = a
            THEN CHOOSE k \in FiberObjs : ObjAddr(k) = a
            ELSE 0

\* the sizes a task object is scanned with
TaskSizes == {2 * vptr_sizeof, 2 * vptr_sizeof + 4, 3 * vptr_sizeof}
FiberDepths == {-1} \cup (0..MaxFiberDepth)

\* what the first word of an object leads to: a whitelisted vtable of a live
\* object ("task"), a whitelisted vtable of an object that is not live ("dead"),
\* a symbol that is not whitelisted ("other"), no symbol ("nosym"); or the
\* object cannot be read ("unreadable")
TaskKinds == {"task", "dead", "other", "nosym", "unreadable"}

\* the content of a word whose read raises gdb.MemoryError; every other
\* content is the unsigned value read
MemoryError == -1

\* the calls of _do_walk the interpreter lets nest before it raises
\* RecursionError
RecursionLimit == 6

\* int(gdb.Value(it).reinterpret_cast(self._vptr_type).dereference()) for a
\* word behind the first word of an object
WordAt(it) ==
    LET k == it \div ObjStride
        j == (it % ObjStride) \div vptr_sizeof
    IN  IF k \in FiberObjs /\ j \in WordIdx THEN task_words[k][j] ELSE 0

\* the vtable pointer read from object k, and the symbol it resolves to
VptrOf(k) == 1000 + k
resolve_vptr(k) ==
    IF task_kind[k] \in {"task", "dead"} THEN Some("vtable for seastar::continuation")
    ELSE IF task_kind[k] = "other" THEN Some("vtable for other")
    ELSE None

name_is_on_whitelist(name) == name = "vtable for seastar::continuation"

\* scylla_ptr.analyze(ptr) as _probe_pointer uses it: managed, live, offset 0
AnalyzedAsLiveStart(k) == task_kind[k] = "task"

\* _probe_pointer: None, or <<ptr_meta, maybe_vptr, resolved_symbol>>
probe_pointer(p) ==
    LET k == ObjAt(p)
    IN  IF k = 0 \/ task_kind[k] = "unreadable" THEN None
        ELSE IF resolve_vptr(k) = None THEN None
        ELSE IF ~name_is_on_whitelist(resolve_vptr(k)[1]) THEN None
        ELSE IF using_seastar_allocator
        THEN (IF ~AnalyzedAsLiveStart(k) THEN None
              ELSE Some(<<[ptr |-> p, size |-> reported_size], VptrOf(k), resolve_vptr(k)[1]>>))
        ELSE Some(<<[ptr |-> p, size |-> scanned_region_size], VptrOf(k), resolve_vptr(k)[1]>>)

\* a scan that ends with what it has read so far
Scanned(res, reads, error) == [res |-> res, reads |-> reads, error |-> error]

\* the read of a scanned word stands outside any try block
ReadRaises(word) == word = MemoryError

\* _do_walk: the for loop from it on, reads being the addresses read before:
\* res is None or the first word that is accepted with what _probe_pointer
\* returned for it; error says that a read raised gdb.MemoryError
RECURSIVE ScanRegion(_, _, _)
ScanRegion(it, region_end, reads) ==
    IF it >= region_end THEN Scanned(None, reads, FALSE)
    ELSE IF ReadRaises(WordAt(it)) THEN Scanned(None, Append(reads, it), TRUE)
    ELSE LET res == probe_pointer(WordAt(it))
         IN  IF res = None THEN ScanRegion(it + vptr_sizeof, region_end, Append(reads, it))
             ELSE Scanned(Some(<<WordAt(it), res[1]>>), Append(reads, it), FALSE)

\* a list handed on in the order it has
SameOrder(q) == q

\* reversed(...), and the order in which the returning calls append
Reverse(q) == [j \in 1..Len(q) |-> q[Len(q) + 1 - j]]

\* a depth test that lets one more call scan
DepthExhaustedLate(i, max) == max > -1 /\ i > max

\* _do_walk: if max_depth > -1 and i >= max_depth
DepthExhausted(i, max) == max > -1 /\ i >= max


\* the words behind the first word of a chain object: a pointer to the next
\* object in one of them, with or without a pointer to the last object before
\* it, or no pointer at all
WordPatterns == {<<"next", "nil", "nil">>, <<"nil", "next", "nil">>, <<"nil", "nil", "next">>,
                 <<"last", "next", "nil">>, <<"nil", "nil", "nil">>}

WordValue(k, w) ==
    IF w = "next" THEN ObjAddr(k + 1)
    ELSE IF w = "last" THEN ObjAddr(NumTasks + 1)
    ELSE 0

\* memory with objects 1..n being tasks, object n + 1 of kind term
FiberInit ==
    /\ \E n \in 0..NumTasks, term \in TaskKinds \ {"task"}, pats \in [1..NumTasks -> WordPatterns] :
         /\ \A k \in 1..NumTasks : k > n => pats[k] = <<"nil", "nil", "nil">>
         /\ task_kind = [k \in FiberObjs |->
                           IF k <= n THEN "task" ELSE IF k = n + 1 THEN term ELSE "other"]
         /\ task_words = [k \in FiberObjs |->
                            IF k <= n THEN [j \in WordIdx |-> WordValue(k, pats[k][j])]
                            ELSE [j \in WordIdx |-> 0]]
    /\ fiber_task = ObjAddr(1)
    /\ fiber_max_depth \in FiberDepths
    /\ using_seastar_allocator \in BOOLEAN
    /\ \E size \in TaskSizes :
         /\ scanned_region_size = size
         /\ reported_size = size
    /\ this_task = None
    /\ walk_meta = <<>>
    /\ walk_i = 0
    /\ pending = <<>>
    /\ fiber = <<>>
    /\ walked = <<>>
    /\ fiber_pc = "invoke"
    /\ scan_reads = <<>>
    /\ scan_meta = <<>>
    /\ GraphIdle
    /\ QueryIdle
    /\ LsaIdle
    /\ HistIdle
    /\ ProfIdle
    /\ TaskIdle
    /\ ResolveIdle
    /\ CtxIdle

\* invoke, _walk up to the call of _do_walk: this_task[0] of a start that is
\* not accepted raises TypeError
FiberInvoke ==
    /\ fiber_pc = "invoke"
    /\ this_task' = probe_pointer(fiber_task)
    /\ IF this_task' = None
       THEN /\ fiber_pc' = "TypeError"
            /\ UNCHANGED <<walk_meta, walk_i>>
       ELSE /\ walk_meta' = this_task'[1][1]
            /\ walk_i' = 0
            /\ fiber_pc' = "do_walk"
    /\ UNCHANGED <<fiber_task, fiber_max_depth, scanned_region_size, using_seastar_allocator,
                   task_kind, task_words, reported_size, pending, fiber, walked,
                   scan_reads, scan_meta>>
    /\ UNCHANGED fiberFrame

\* one call of _do_walk, up to its return or to the call it makes; a call
\* nested deeper than the interpreter allows raises RecursionError, a failed
\* read of a scanned word raises gdb.MemoryError, and invoke catches neither
DoWalk ==
    /\ fiber_pc = "do_walk"
    /\ IF walk_i >= RecursionLimit
       THEN /\ fiber_pc' = "RecursionError"
            /\ UNCHANGED <<walk_meta, walk_i, pending, scan_reads, scan_meta>>
       ELSE IF DepthExhausted(walk_i, fiber_max_depth)
       THEN /\ fiber_pc' = "return"
            /\ UNCHANGED <<walk_meta, walk_i, pending, scan_reads, scan_meta>>
       ELSE LET region_start == walk_meta.ptr + vptr_sizeof
                region_end == region_start + (walk_meta.size - (walk_meta.size % vptr_sizeof))
            IN  \E r \in {ScanRegion(region_start, region_end, <<>>)} :
                  /\ scan_reads' = r.reads
                  /\ scan_meta' = walk_meta
                  /\ IF r.error
                     THEN /\ fiber_pc' = "MemoryError"
                          /\ UNCHANGED <<walk_meta, walk_i, pending>>
                     ELSE IF r.res = None
                     THEN /\ fiber_pc' = "return"
                          /\ UNCHANGED <<walk_meta, walk_i, pending>>
                     ELSE /\ pending' = Append(pending, <<r.res[1][1], r.res[1][2][2],
                                                          r.res[1][2][3]>>)
                          /\ walk_meta' = r.res[1][2][1]
                          /\ walk_i' = walk_i + 1
                          /\ fiber_pc' = "do_walk"
    /\ UNCHANGED <<fiber_task, fiber_max_depth, scanned_region_size, using_seastar_allocator,
                   task_kind, task_words, reported_size, this_task, fiber, walked>>
    /\ UNCHANGED fiberFrame

\* the innermost _do_walk returns []; every call above it appends its entry to
\* the list it got back; _walk hands out the reversed list and invoke prints
FiberReturn ==
    /\ fiber_pc = "return"
    /\ fiber' = Reverse(pending)
    /\ walked' = Reverse(fiber')
    /\ pending' = <<>>
    /\ fiber_pc' = "printed"
    /\ UNCHANGED <<fiber_task, fiber_max_depth, scanned_region_size, using_seastar_allocator,
                   task_kind, task_words, reported_size, this_task, walk_meta, walk_i,
                   scan_reads, scan_meta>>
    /\ UNCHANGED fiberFrame

\* what invoke writes: the start task on a line without an index ("Starting
\* task:"), then the entries with their index
Listing ==
    <<[index |-> None, task |-> this_task[1][1].ptr]>>
    \o [j \in 1..Len(walked) |-> [index |-> Some(j - 1), task |-> walked[j][1]]]

FiberNext == FiberInvoke \/ DoWalk \/ FiberReturn

SpecFiber == FiberInit /\ [][FiberNext]_vars


(***************************************************************************)
(* Properties of the fiber walk (SpecFiber)                                *)
(***************************************************************************)
\* object k passes for a task in the mode of the walk
Recognizable(k) ==
    \/ task_kind[k] = "task"
    \/ ~using_seastar_allocator /\ task_kind[k] = "dead"

\* the size an object is scanned with
ScanSize == IF using_seastar_allocator THEN reported_size ELSE scanned_region_size

\* the words of an object at offsets W, 2W, ... up to ScanSize rounded down to
\* a multiple of the word size W
ScannedIdx == {j \in WordIdx : j * vptr_sizeof <= ScanSize - (ScanSize % vptr_sizeof)}

\* the recognizable objects that the scanned words of object k point to
Successors(k) ==
    {n \in FiberObjs : Recognizable(n) /\ \E j \in ScannedIdx : task_words[k][j] = ObjAddr(n)}

\* every object points to at most one recognizable object
LinearMemory == \A k \in FiberObjs : Cardinality(Successors(k)) <= 1

\* the chain planted from object k on, as the objects' addresses
RECURSIVE ChainFrom(_, _)
ChainFrom(k, fuel) ==
    IF ~Recognizable(k) THEN <<>>
    ELSE IF Successors(k) = {} \/ fuel = 0 THEN <<ObjAddr(k)>>
    ELSE <<ObjAddr(k)>> \o ChainFrom(CHOOSE n \in Successors(k) : TRUE, fuel - 1)

PlantedChain == ChainFrom(ObjAt(fiber_task), NumTasks + 1)

EntryAddrs(q) == [j \in 1..Len(q) |-> q[j][1]]

Least(a, b) == IF a <= b THEN a ELSE b

\* C13 (as stated): for a planted linear chain of K recognizable objects that
\* begins at the start address the walk returns exactly K entries when
\* max_depth >= K or the depth is unlimited, no more than max_depth entries
\* when max_depth < K, and none when max_depth = 0.
C13_ChainOfKGivesKEntries ==
    (fiber_pc = "printed" /\ LinearMemory) =>
        LET K == Len(PlantedChain)
        IN  /\ (fiber_max_depth = -1 \/ fiber_max_depth >= K) => Len(walked) = K
            /\ (fiber_max_depth > -1 /\ fiber_max_depth < K) => Len(walked) <= fiber_max_depth
            /\ fiber_max_depth = 0 => Len(walked) = 0

\* C13 (amended): for a planted linear chain of K recognizable objects that
\* begins at the start address the walk returns the start task and, as its
\* chain, the K - 1 objects after it when max_depth >= K - 1 or the depth is
\* unlimited, the first max_depth of them when max_depth < K - 1, and none when
\* max_depth = 0.
C13_ChainOfKGivesSuccessors ==
    (fiber_pc = "printed" /\ LinearMemory) =>
        LET K == Len(PlantedChain)
            n == IF fiber_max_depth = -1 THEN K - 1 ELSE Least(K - 1, fiber_max_depth)
        IN  /\ K >= 1
            /\ this_task[1][1].ptr = PlantedChain[1]
            /\ Len(walked) = n
            /\ EntryAddrs(walked) = SubSeq(PlantedChain, 2, n + 1)
            /\ fiber_max_depth = 0 => walked = <<>>

\* a chain of three tasks walked without a depth limit: two entries
C13_Witness ==
    /\ fiber_pc = "printed"
    /\ LinearMemory
    /\ Len(PlantedChain) = 3
    /\ fiber_max_depth = -1
    /\ Len(walked) = 2

\* C14: when the start address is not accepted as a task the walk ends at once
\* with an empty chain and a report of its own; it raises no unrelated error.
C14_UnacceptedStartEndsCleanly ==
    (fiber_pc # "invoke" /\ this_task = None) =>
        /\ fiber_pc # "TypeError"
        /\ walked = <<>>

MaxHists == 2
\* items counted are 1..NumItems
NumItems == 2
\* calls of add
MaxAdds == 3

Items == 1..NumItems

\* self._counts[item] of a defaultdict(int) read without inserting
CountOf(d, item) == IF item \in DOMAIN d THEN d[item] ELSE 0

\* self._counts[item] += 1 on a defaultdict(int)
Incremented(d, item) ==
    [k \in DOMAIN d \cup {item} |-> IF k = item THEN CountOf(d, item) + 1 ELSE d[k]]

\* the counts parameter's default value: the default expression is evaluated
\* once, when the def statement runs, and every call that omits counts gets
\* that same object
DefaultCounts(dicts) == 1

\* len(self._counts)
HistLen(h) == Cardinality(DOMAIN count_dicts[h.counts])

\* self._counts[item]
HistItem(h, item) == CountOf(count_dicts[h.counts], item)

\* the calls of add made on all instances
RECURSIVE CallsOfAdd(_)
CallsOfAdd(hs) ==
    IF hs = <<>> THEN 0 ELSE Head(hs).calls + CallsOfAdd(Tail(hs))

HistInit ==
    /\ count_dicts = <<<<>>>>
    /\ hists = <<>>
    /\ GraphIdle
    /\ QueryIdle
    /\ LsaIdle
    /\ FiberIdle
    /\ ProfIdle
    /\ TaskIdle
    /\ ResolveIdle
    /\ CtxIdle

\* histogram(...) without a counts argument; added and calls record what the
\* caller did with the instance
HistConstruct ==
    /\ Len(hists) < MaxHists
    /\ hists' = Append(hists, [counts |-> DefaultCounts(count_dicts),
                               defaulted |-> TRUE,
                               added |-> [k \in Items |-> 0], calls |-> 0])
    /\ UNCHANGED count_dicts
    /\ UNCHANGED histFrame

\* histogram(counts=d) with a dict d the caller has just made
HistConstructWith ==
    /\ Len(hists) < MaxHists
    /\ count_dicts' = Append(count_dicts, <<>>)
    /\ hists' = Append(hists, [counts |-> Len(count_dicts) + 1, defaulted |-> FALSE,
                               added |-> [k \in Items |-> 0], calls |-> 0])
    /\ UNCHANGED histFrame

\* h.add(item)
HistAdd ==
    /\ CallsOfAdd(hists) < MaxAdds
    /\ \E n \in DOMAIN hists, item \in Items :
          /\ count_dicts' = [count_dicts EXCEPT ![hists[n].counts] = Incremented(@, item)]
          /\ hists' = [hists EXCEPT ![n].added[item] = @ + 1, ![n].calls = @ + 1]
    /\ UNCHANGED histFrame

HistNext ==
    \/ HistConstruct
    \/ HistConstructWith
    \/ HistAdd

SpecHist == HistInit /\ [][HistNext]_vars

\* C16: a histogram constructed without a counts argument has, for every item
\* K, h[K] equal to the number of add(K) calls made on that instance, and as
\* many keys as distinct items were added to it (none when it is constructed),
\* whatever was done to other instances.
C16_DefaultedCountsOwnAdds ==
    \A n \in DOMAIN hists :
        hists[n].defaulted =>
            /\ \A k \in Items : HistItem(hists[n], k) = hists[n].added[k]
            /\ HistLen(hists[n]) = Cardinality({k \in Items : hists[n].added[k] > 0})

\* What the code does guarantee: an instance given its own dict counts exactly
\* the adds made on it.
C16_OwnDictCountsOwnAdds ==
    \A n \in DOMAIN hists :
        ~hists[n].defaulted =>
            \A k \in Items : HistItem(hists[n], k) = hists[n].added[k]

(***************************************************************************)
(* scylla heapprof: the tree of allocation sites                           *)
(***************************************************************************)
\* records of the allocation-site list
MaxSites == 2

\* (size, count) of a record; a record may have size 0
SiteAttributes == {<<0, 1>>, <<1, 1>>, <<2, 1>>, <<2, 2>>}

\* the frame of memory::get_backtrace(), the first of every backtrace
get_backtrace_frame == 0

\* the frames of a backtrace, innermost first
Backtraces ==
    {<<get_backtrace_frame>>, <<get_backtrace_frame, 1>>, <<get_backtrace_frame, 2>>,
     <<get_backtrace_frame, 1, 1>>, <<get_backtrace_frame, 1, 2>>,
     <<get_backtrace_frame, 2, 1>>, <<get_backtrace_frame, 1, 2, 1>>}

Sites == {[size |-> a[1], count |-> a[2], frames |-> b] : a \in SiteAttributes, b \in Backtraces}

\* the lists cpu_mem.alloc_site_list_head can begin
SiteLists == UNION {[1..n -> Sites] : n \in 0..MaxSites}

\* ProfNode(key)
ProfNode(key) ==
    [key |-> key, children_by_key |-> <<>>, size |-> 0, count |-> 0, tail |-> <<>>]

\* the root is the first node made
ProfRoot == 1

\* TreeNode.children
children(tree, n) ==
    {tree[n].children_by_key[k] : k \in DOMAIN tree[n].children_by_key}

\* TreeNode.has_only_one_child
has_only_one_child(tree, n) == Cardinality(DOMAIN tree[n].children_by_key) = 1

\* TreeNode.has_children
has_children(tree, n) == DOMAIN tree[n].children_by_key # {}

\* ProfNode.attributes
attributes(tree, n) == [size |-> tree[n].size, count |-> tree[n].count]

\* TreeNode.get_or_add: the tree after the call and the node returned
get_or_add(tree, n, key) ==
    IF key \in DOMAIN tree[n].children_by_key
    THEN [tree |-> tree, node |-> tree[n].children_by_key[key]]
    ELSE [tree |-> Append([tree EXCEPT ![n].children_by_key = (key :> (Len(tree) + 1)) @@ @],
                          ProfNode(Some(key))),
          node |-> Len(tree) + 1]

\* n.size += size; n.count += count
Accumulate(tree, n, size, count) ==
    [tree EXCEPT ![n].size = @ + size, ![n].count = @ + count]

\* for addr in seq: n = n.get_or_add(addr); n.size += size; n.count += count
RECURSIVE InsertPath(_, _, _, _, _)
InsertPath(tree, n, seq, size, count) ==
    IF seq = <<>> THEN tree
    ELSE LET r == get_or_add(tree, n, Head(seq))
         IN  InsertPath(Accumulate(r.tree, r.node, size, count), r.node, Tail(seq),
                        size, count)

\* a test that lets every record in
AnySize(size) == TRUE

\* if size:
SizeIsSet(size) == size # 0

\* the body of the while loop for one record
InsertSite(tree, record, inverted) ==
    IF SizeIsSet(record.size)
    THEN LET addresses == Tail(record.frames)
             seq == IF inverted THEN Reverse(addresses) ELSE addresses
         IN  InsertPath(Accumulate(tree, ProfRoot, record.size, record.count),
                        ProfRoot, seq, record.size, record.count)
    ELSE tree

\* a tail that forgets the key of the child taken in
TailKept(tail, key) == tail

\* node.tail.append(child.key)
TailAppended(tail, key) == Append(tail, key[1])

\* TreeNode.squash_child
squash_child(tree, n) ==
    LET child == CHOOSE c \in children(tree, n) : TRUE
    IN  [tree EXCEPT ![n].children_by_key = tree[child].children_by_key]

\* the while loop of collapse_similar
RECURSIVE SquashWhile(_, _)
SquashWhile(tree, n) ==
    IF has_only_one_child(tree, n)
    THEN LET child == CHOOSE c \in children(tree, n) : TRUE
         IN  IF attributes(tree, n) = attributes(tree, child)
             THEN SquashWhile([squash_child(tree, n) EXCEPT
                                  ![n].tail = TailAppended(@, tree[child].key)], n)
             ELSE tree
    ELSE tree

\* collapse_similar(node), and its for loop over the children still to do
RECURSIVE collapse_similar(_, _)
RECURSIVE CollapseEach(_, _)
collapse_similar(tree, n) ==
    LET squashed == SquashWhile(tree, n)
    IN  CollapseEach(squashed, children(squashed, n))

CollapseEach(tree, todo) ==
    IF todo = {} THEN tree
    ELSE LET child == CHOOSE c \in todo : TRUE
         IN  CollapseEach(collapse_similar(tree, child), todo \ {child})

ProfInit ==
    /\ alloc_site_list \in SiteLists
    /\ args_inverted \in BOOLEAN
    /\ site_pos = 1
    /\ prof_tree = <<ProfNode(None)>>
    /\ prof_pc = "while"
    /\ GraphIdle
    /\ QueryIdle
    /\ LsaIdle
    /\ FiberIdle
    /\ HistIdle
    /\ TaskIdle
    /\ ResolveIdle
    /\ CtxIdle

\* one round of while site: ... site = site['next']
ProfSite ==
    /\ prof_pc = "while"
    /\ site_pos <= Len(alloc_site_list)
    /\ prof_tree' = InsertSite(prof_tree, alloc_site_list[site_pos], args_inverted)
    /\ site_pos' = site_pos + 1
    /\ UNCHANGED <<alloc_site_list, args_inverted, prof_pc>>
    /\ UNCHANGED profFrame

\* args.flame: the stacks are written from the tree as built
ProfFlame ==
    /\ prof_pc = "while"
    /\ site_pos > Len(alloc_site_list)
    /\ prof_pc' = "flame"
    /\ UNCHANGED <<alloc_site_list, args_inverted, site_pos, prof_tree>>
    /\ UNCHANGED profFrame

\* otherwise: collapse_similar(root), then print_tree
ProfPrintTree ==
    /\ prof_pc = "while"
    /\ site_pos > Len(alloc_site_list)
    /\ prof_tree' = collapse_similar(prof_tree, ProfRoot)
    /\ prof_pc' = "printed"
    /\ UNCHANGED <<alloc_site_list, args_inverted, site_pos>>
    /\ UNCHANGED profFrame

ProfNext ==
    \/ ProfSite
    \/ ProfFlame
    \/ ProfPrintTree

SpecProf == ProfInit /\ [][ProfNext]_vars

\* the node whose children_by_key holds n
ProfParent(tree, n) == CHOOSE p \in DOMAIN tree : n \in children(tree, p)

\* the keys on the way from the root to n
RECURSIVE RootPath(_, _)
RootPath(tree, n) ==
    IF n = ProfRoot THEN <<>>
    ELSE Append(RootPath(tree, ProfParent(tree, n)), tree[n].key[1])

\* the call stack of a record: the frames after the first, outermost first
\* when --inverted is given
CallStack(record) ==
    [j \in 1..(Len(record.frames) - 1) |->
        IF args_inverted THEN record.frames[Len(record.frames) + 1 - j]
        ELSE record.frames[j + 1]]

IsPrefix(p, q) ==
    /\ Len(p) <= Len(q)
    /\ \A j \in 1..Len(p) : p[j] = q[j]

\* the sum of f over the members of a finite set
RECURSIVE SumOf(_, _)
SumOf(f, S) ==
    IF S = {} THEN 0
    ELSE LET x == CHOOSE y \in S : TRUE IN f[x] + SumOf(f, S \ {x})

\* the records whose call stack has the root path of n as a prefix
Through(n) ==
    {j \in DOMAIN alloc_site_list :
        IsPrefix(RootPath(prof_tree, n), CallStack(alloc_site_list[j]))}

\* the records the loop lets in
LetIn == {j \in DOMAIN alloc_site_list : alloc_site_list[j].size # 0}

SizeAt == [j \in DOMAIN alloc_site_list |-> alloc_site_list[j].size]

CountAt == [j \in DOMAIN alloc_site_list |-> alloc_site_list[j].count]

\* the while loop has ended and the tree is as it was built
ProfBuilt ==
    /\ prof_pc \in {"while", "flame"}
    /\ site_pos > Len(alloc_site_list)

\* C17 as stated: once the tree is built, every node's size and count are the
\* sums of size and count over all the records of the list whose call stack
\* has the node's root path as a prefix.
C17_NodeSumsOverAllRecords ==
    ProfBuilt =>
        \A n \in DOMAIN prof_tree :
            /\ prof_tree[n].size = SumOf(SizeAt, Through(n))
            /\ prof_tree[n].count = SumOf(CountAt, Through(n))

\* C17 as the code has it: once the tree is built, every node's size and
\* count are the sums over the records of nonzero size whose call stack has
\* the node's root path as a prefix, and every prefix of the call stack of
\* such a record is the root path of exactly one node.
C17_NodeSumsOverSizedRecords ==
    ProfBuilt =>
        /\ \A n \in DOMAIN prof_tree :
              /\ prof_tree[n].size = SumOf(SizeAt, Through(n) \cap LetIn)
              /\ prof_tree[n].count = SumOf(CountAt, Through(n) \cap LetIn)
        /\ \A j \in LetIn :
              \A k \in 0..Len(CallStack(alloc_site_list[j])) :
                  Cardinality({n \in DOMAIN prof_tree :
                      RootPath(prof_tree, n) = SubSeq(CallStack(alloc_site_list[j]), 1, k)}) = 1

\* a built tree, caller first, where the call stack of a record of size 0 and
\* nonzero count goes through an inner node made for a record of nonzero size
C17_Witness ==
    /\ ProfBuilt
    /\ args_inverted
    /\ \E n \in DOMAIN prof_tree :
          /\ n # ProfRoot
          /\ Through(n) \cap LetIn # {}
          /\ \E j \in Through(n) \ LetIn : alloc_site_list[j].count > 0
          /\ has_children(prof_tree, n)

\* the nodes that can be reached from n, n among them
RECURSIVE Below(_, _)
Below(tree, n) ==
    {n} \cup UNION {Below(tree, c) : c \in children(tree, n)}

\* the nodes of the tree: those the root still reaches
InTree(tree) == Below(tree, ProfRoot)

\* the node of the tree that has n as a child
ParentInTree(tree, n) == CHOOSE p \in InTree(tree) : n \in children(tree, p)

\* the keys met from the root down to n, each node's key followed by its tail
RECURSIVE KeySequence(_, _)
KeySequence(tree, n) ==
    IF n = ProfRoot THEN tree[n].tail
    ELSE KeySequence(tree, ParentInTree(tree, n)) \o <<tree[n].key[1]>> \o tree[n].tail

Leaves(tree) == {n \in InTree(tree) : ~has_children(tree, n)}

\* the multiset of root-to-leaf key sequences: how many leaves have each
LeafSequences(tree) ==
    [q \in {KeySequence(tree, n) : n \in Leaves(tree)} |->
        Cardinality({n \in Leaves(tree) : KeySequence(tree, n) = q})]

\* before and after are the tree before and after a pass of collapse_similar
NothingLost(before, after) ==
    /\ LeafSequences(after) = LeafSequences(before)
    /\ \A n \in InTree(after) :
          /\ n \in InTree(before)
          /\ after[n].key = before[n].key
          /\ attributes(after, n) = attributes(before, n)
    /\ \A n \in InTree(before) \ InTree(after) :
          /\ children(before, ParentInTree(before, n)) = {n}
          /\ attributes(before, ParentInTree(before, n)) = attributes(before, n)

\* C18: the pass of collapse_similar over the tree leaves the multiset of
\* root-to-leaf key sequences (each node's key followed by its tail) as it
\* was, every node still in the tree keeps its key, size and count, and every
\* node taken out was the only child of a parent with the same size and count.
C18_CollapseLosesNoAttribution ==
    [][(prof_pc = "while" /\ prof_pc' = "printed") => NothingLost(prof_tree, prof_tree')]_vars

\* a collapsed tree of two leaves where the root and a node below it have each
\* taken a child in
C18_Witness ==
    /\ prof_pc = "printed"
    /\ prof_tree[ProfRoot].tail # <<>>
    /\ Cardinality(Leaves(prof_tree)) = 2
    /\ \E n \in InTree(prof_tree) \ {ProfRoot} : prof_tree[n].tail # <<>>

(***************************************************************************)
(* scylla task_histogram: the page sampling loop                           *)
(***************************************************************************)
\* cpu_mem.nr_pages
TaskPages == 3
\* --samples is 0..MaxSamples
MaxSamples == 2

\* page indexes
SampledIdx == 0..(TaskPages - 1)

\* range(0, nr_pages)
PageRange == [j \in 1..TaskPages |-> j - 1]

\* random.sample(range(0, nr_pages), nr_pages): the page indexes in any order
RandomSamples ==
    {q \in [1..TaskPages -> SampledIdx] : \A j, k \in 1..TaskPages : q[j] = q[k] => j = k}

\* what a page is to the loop: not sampled (no span starts there, the span is
\* large, or its pool has another object size than --size), or the vptrs read
\* from the objects of its span that point into the text section
NotSampled == None
PageContents == {NotSampled, Some({}), Some({1}), Some({1, 2})}

\* vptr_count[int(addr)] += 1 for each of the vptrs
Counted(counts, vptrs) ==
    [v \in DOMAIN counts \cup vptrs |->
        CountOf(counts, v) + (IF v \in vptrs THEN 1 ELSE 0)]

\* not args.all or args.samples > 0
LimitApplies(all, samples) == ~all \/ samples > 0

\* the test before break
SamplesReached(all, samples, nscanned, distinct) ==
    /\ LimitApplies(all, samples)
    /\ (nscanned >= samples \/ distinct >= samples)

TaskInit ==
    /\ args_all \in BOOLEAN
    /\ args_samples \in 0..MaxSamples
    /\ page_samples \in (IF args_all THEN {PageRange} ELSE RandomSamples)
    /\ page_vptrs \in [SampledIdx -> PageContents]
    /\ sample_pos = 1
    /\ scanned_pages = 0
    /\ vptr_count = <<>>
    /\ task_pc = "for"
    /\ GraphIdle
    /\ QueryIdle
    /\ LsaIdle
    /\ FiberIdle
    /\ HistIdle
    /\ ProfIdle
    /\ ResolveIdle
    /\ CtxIdle

\* one round of for idx in page_samples that ends in continue
TaskSkipPage ==
    /\ task_pc = "for"
    /\ sample_pos <= Len(page_samples)
    /\ page_vptrs[page_samples[sample_pos]] = NotSampled
    /\ sample_pos' = sample_pos + 1
    /\ UNCHANGED <<args_all, args_samples, page_samples, page_vptrs, scanned_pages,
                   vptr_count, task_pc>>
    /\ UNCHANGED taskFrame

\* one round that scans the page, up to the test before break
TaskScanPage ==
    /\ task_pc = "for"
    /\ sample_pos <= Len(page_samples)
    /\ page_vptrs[page_samples[sample_pos]] # NotSampled
    /\ scanned_pages' = scanned_pages + 1
    /\ vptr_count' = Counted(vptr_count, page_vptrs[page_samples[sample_pos]][1])
    /\ sample_pos' = sample_pos + 1
    /\ task_pc' = IF SamplesReached(args_all, args_samples, scanned_pages',
                                    Cardinality(DOMAIN vptr_count'))
                  THEN "break" ELSE "for"
    /\ UNCHANGED <<args_all, args_samples, page_samples, page_vptrs>>
    /\ UNCHANGED taskFrame

\* after the loop: the counts are sorted and shown
TaskShow ==
    /\ \/ task_pc = "break"
       \/ task_pc = "for" /\ sample_pos > Len(page_samples)
    /\ task_pc' = IF task_pc = "break" THEN "shown after break" ELSE "shown"
    /\ UNCHANGED <<args_all, args_samples, page_samples, page_vptrs, sample_pos,
                   scanned_pages, vptr_count>>
    /\ UNCHANGED taskFrame

TaskNext ==
    \/ TaskSkipPage
    \/ TaskScanPage
    \/ TaskShow

SpecTask == TaskInit /\ [][TaskNext]_vars

\* the loop was left by break while pages of page_samples were still to come
EndedEarly ==
    /\ task_pc \in {"break", "shown after break"}
    /\ sample_pos <= Len(page_samples)

\* C19: the sampling loop ends before all pages have been visited only if
\* --all is not set, --samples is greater than 0 and the number of scanned
\* pages or of distinct vptrs has reached --samples; so with --samples 0, and
\* with --all, every page is visited.
C19_EndsEarlyOnlyWhenSamplesReached ==
    EndedEarly =>
        /\ ~args_all
        /\ args_samples > 0
        /\ (scanned_pages >= args_samples
            \/ Cardinality(DOMAIN vptr_count) >= args_samples)

\* What the code does guarantee: with --all and --samples 0 every page is
\* visited.
C19_AllWithoutSamplesVisitsEveryPage ==
    (args_all /\ args_samples = 0) => ~EndedEarly

(***************************************************************************)
(* resolve: the symbol cache                                               *)
(***************************************************************************)
\* addresses resolved are 1..NumAddrs
NumAddrs == 2
\* calls of gdb's info symbol
MaxInfoCalls == 3

Addrs == 1..NumAddrs

\* what info symbol can answer: no symbol, a symbol with its section, or a
\* text without the words 'in section'
InfoKinds == {"No symbol", "name in section", "name"}

\* name = None, or infosym[:infosym.find('in section')]: the text before
\* 'in section', or all but the last character when find returns -1
NameFrom(a, kind) ==
    IF kind = "No symbol" THEN None
    ELSE IF kind = "name in section" THEN Some(<<a, "name ">>)
    ELSE Some(<<a, "nam">>)

\* a test that stores the name whatever the caller asked for
StoreAlways(cache) == TRUE

\* if cache:
StoreWanted(cache) == cache

\* resolve(addr, cache): the map after the call, the value returned, and
\* whether info symbol was executed
resolve(map, a, cache) ==
    IF a \in DOMAIN map
    THEN [names |-> map, name |-> map[a], asked |-> FALSE]
    ELSE LET name == NameFrom(a, symbol_info[a])
         IN  [names |-> IF StoreWanted(cache) THEN (a :> name) @@ map ELSE map,
              name |-> name, asked |-> TRUE]

ResolveInit ==
    /\ names = <<>>
    /\ symbol_info \in [Addrs -> InfoKinds]
    /\ info_calls = 0
    /\ last_resolve = <<>>
    /\ GraphIdle
    /\ QueryIdle
    /\ LsaIdle
    /\ FiberIdle
    /\ HistIdle
    /\ ProfIdle
    /\ TaskIdle
    /\ CtxIdle

\* a call resolve(addr) or resolve(addr, cache=False)
Resolve ==
    \E a \in Addrs, cache \in BOOLEAN :
        \E r \in {resolve(names, a, cache)} :
            /\ r.asked => info_calls < MaxInfoCalls
            /\ names' = r.names
            /\ info_calls' = IF r.asked THEN info_calls + 1 ELSE info_calls
            /\ last_resolve' = <<[addr |-> a, cache |-> cache, name |-> r.name,
                                  asked |-> r.asked]>>
            /\ UNCHANGED symbol_info
            /\ UNCHANGED resolveFrame

ResolveNext == Resolve

SpecResolve == ResolveInit /\ [][ResolveNext]_vars

\* map as it was with an entry for a added if it had none
WithEntryFor(map, a, after) ==
    /\ DOMAIN after = DOMAIN map \cup {a}
    /\ \A b \in DOMAIN map : after[b] = map[b]

\* what a call of resolve may do to the map and must return
CallerControlsCaching(call) ==
    /\ ~call.cache => names' = names
    /\ call.cache =>
          /\ WithEntryFor(names, call.addr, names')
          /\ names'[call.addr] = call.name
    /\ call.addr \in DOMAIN names =>
          /\ call.name = names[call.addr]
          /\ ~call.asked
          /\ info_calls' = info_calls
    /\ call.addr \notin DOMAIN names =>
          /\ call.name = NameFrom(call.addr, symbol_info[call.addr])
          /\ info_calls' = info_calls + 1

\* C20: a call resolve(addr, cache=False) leaves the map names as it was; a
\* call resolve(addr, cache=True) leaves it with its previous entries and an
\* entry for addr, also when the name is None; and a call for an address that
\* is in the map returns the stored name without executing info symbol.
C20_CallerControlsCaching ==
    [][last_resolve' # <<>> => CallerControlsCaching(last_resolve'[1])]_vars

\* a call without caching for an address not in the map has just returned None
\* while the map holds None for another address, stored by an earlier call
C20_Witness ==
    /\ last_resolve # <<>>
    /\ ~last_resolve[1].cache
    /\ last_resolve[1].asked
    /\ last_resolve[1].name = None
    /\ last_resolve[1].addr \notin DOMAIN names
    /\ \E b \in DOMAIN names : names[b] = None
    /\ info_calls = MaxInfoCalls

(***************************************************************************)
(* Properties of scylla_ptr.analyze: unused tail and large spans (SpecPtr) *)
(***************************************************************************)
\* page j of span s belongs to the pool of the span's first page and says it
\* is the j-th page of its span
PageInUse(s, j) ==
    /\ s.index + j \in DOMAIN pages
    /\ pages[s.index + j].pool # 0
    /\ pages[s.index + j].pool = pages[s.index].pool
    /\ pages[s.index + j].offset_in_span = j

\* the pages at the front of span s that are in use: none of a free span, all
\* of a large span, the longest run of pages in use of a small-pool span
UsedPages(s) ==
    IF pages[s.index].free THEN 0
    ELSE IF pages[s.index].pool = 0 THEN s.size
    ELSE CHOOSE k \in 0..s.size :
            /\ \A j \in 0..(k - 1) : PageInUse(s, j)
            /\ k < s.size => ~PageInUse(s, k)

\* analyze has returned a classification of an address of span s of thread t
ClassifiedIn(t, s) ==
    /\ op = "analyze"
    /\ outcome = "returned"
    /\ t \in Owners(ptr)
    /\ s \in Holding(t, ptr)

\* C21: an owned address at or beyond the used pages of its span (no page of a
\* free span is used, every page of a large span, and of a small-pool span the
\* longest prefix of pages with the span's pool and offset_in_span equal to
\* their index) is classified free: is_live is false and the containing page
\* is reported free; every address of a large span that is not free is live
\* with size span_size * page_size and offset_in_object = address - span.start.
C21_UnusedTailFreeLargeLive ==
    \A t \in Owners(ptr) : \A s \in Holding(t, ptr) :
        (op = "analyze" /\ outcome = "returned") =>
            /\ ptr - s.start >= UsedPages(s) * PageSize =>
                  /\ ptr_meta.is_live = Some(FALSE)
                  /\ ptr_meta.is_containing_page_free = Some(TRUE)
            /\ (~pages[s.index].free /\ pages[s.index].pool = 0) =>
                  /\ ptr_meta.is_live = Some(TRUE)
                  /\ ptr_meta.is_containing_page_free = Some(FALSE)
                  /\ ptr_meta.is_small = Some(FALSE)
                  /\ ptr_meta.size = Some(s.size * PageSize)
                  /\ ptr_meta.offset_in_object = ptr - s.start

\* an address in the unused tail of a small-pool span whose first page is in
\* use, classified free
C21_Witness ==
    \E t \in Threads : \E s \in Holding(t, ptr) :
        /\ ClassifiedIn(t, s)
        /\ ~pages[s.index].free
        /\ pages[s.index].pool # 0
        /\ UsedPages(s) >= 1
        /\ UsedPages(s) < s.size
        /\ ptr - s.start >= UsedPages(s) * PageSize
        /\ ptr_meta.is_containing_page_free = Some(TRUE)

(***************************************************************************)
(* The fiber walk over any memory: cycles, words that cannot be read       *)
(***************************************************************************)
\* what a word behind the first word of an object can hold: null, a word
\* whose read fails, or the address of the first or the second object
WordValues == {0, MemoryError, ObjAddr(1), ObjAddr(2)}

\* the words of the second object
SecondWords ==
    {<<0, 0, 0>>, <<ObjAddr(1), 0, 0>>, <<ObjAddr(2), 0, 0>>, <<0, ObjAddr(1), 0>>,
     <<MemoryError, ObjAddr(1), 0>>}

\* memory whose first object is a task and whose first two objects hold any
\* words, pointers back to themselves and to each other among them
FiberMemInit ==
    /\ \E second \in {"task", "dead", "unreadable"},
          w1 \in [WordIdx -> WordValues], w2 \in SecondWords :
         /\ task_kind = [k \in FiberObjs |->
                           IF k = 1 THEN "task" ELSE IF k = 2 THEN second ELSE "other"]
         /\ task_words = [k \in FiberObjs |->
                            IF k = 1 THEN w1
                            ELSE IF k = 2 THEN [j \in WordIdx |-> w2[j]]
                            ELSE [j \in WordIdx |-> 0]]
    /\ fiber_task = ObjAddr(1)
    /\ fiber_max_depth \in FiberDepths
    /\ using_seastar_allocator \in BOOLEAN
    /\ \E size \in TaskSizes :
         /\ scanned_region_size = size
         /\ reported_size = size
    /\ this_task = None
    /\ walk_meta = <<>>
    /\ walk_i = 0
    /\ pending = <<>>
    /\ fiber = <<>>
    /\ walked = <<>>
    /\ fiber_pc = "invoke"
    /\ scan_reads = <<>>
    /\ scan_meta = <<>>
    /\ GraphIdle
    /\ QueryIdle
    /\ LsaIdle
    /\ HistIdle
    /\ ProfIdle
    /\ TaskIdle
    /\ ResolveIdle
    /\ CtxIdle

SpecFiberMem == FiberMemInit /\ [][FiberNext]_vars

\* the last scan read the words at offsets W, 2W, ... of its object, in
\* ascending order
ReadsAscendFromW ==
    \A j \in DOMAIN scan_reads : scan_reads[j] = scan_meta.ptr + j * vptr_sizeof

\* C22: the words a scan of an accepted object at p of size S reads are those
\* at offsets W, 2W, ... that lie entirely inside [p, p + S), in ascending
\* order, never a word at or beyond p + S; the next link is the lowest such
\* word that is accepted.
C22_ScansWordsInsideObject ==
    scan_meta # <<>> =>
        /\ ReadsAscendFromW
        /\ \A j \in DOMAIN scan_reads :
              scan_reads[j] + vptr_sizeof <= scan_meta.ptr + scan_meta.size
        /\ \A j \in DOMAIN scan_reads :
              (j < Len(scan_reads) /\ ~ReadRaises(WordAt(scan_reads[j])))
                  => probe_pointer(WordAt(scan_reads[j])) = None

\* What the code does guarantee: the scan reads, in ascending order, words at
\* offsets W up to S rounded down to a multiple of W, the last of which ends
\* W bytes behind the rounded size, and follows the first accepted one.
C22_ScansWordsUpToRoundedSize ==
    scan_meta # <<>> =>
        /\ ReadsAscendFromW
        /\ \A j \in DOMAIN scan_reads :
              scan_reads[j] <= scan_meta.ptr + scan_meta.size - (scan_meta.size % vptr_sizeof)
        /\ \A j \in DOMAIN scan_reads :
              (j < Len(scan_reads) /\ ~ReadRaises(WordAt(scan_reads[j])))
                  => probe_pointer(WordAt(scan_reads[j])) = None

\* C23: a read error on one address aborts only the probe of that address; no
\* failed read of a scanned word or of a probed pointer ends the walk.
C23_ReadErrorNeverEndsWalk == fiber_pc # "MemoryError"

\* What the code does guarantee: a pointer whose target cannot be read is not
\* accepted and the scan goes on behind it.
C23_UnreadableTargetIsSkipped ==
    \A j \in DOMAIN scan_reads :
        (~ReadRaises(WordAt(scan_reads[j])) /\ ObjAt(WordAt(scan_reads[j])) # 0
         /\ task_kind[ObjAt(WordAt(scan_reads[j]))] = "unreadable")
            => (j < Len(scan_reads) \/ fiber_pc \in {"return", "printed"})

\* C28: with unlimited depth the walk returns a finite chain for every memory
\* content, also when task objects point to each other in a cycle or an
\* object points to itself.
C28_UnlimitedWalkReturns ==
    fiber_max_depth = -1 => fiber_pc # "RecursionError"

(***************************************************************************)
(* Properties of the object-graph builder: consistency, termination,       *)
(* expansion (SpecGraph)                                                   *)
(***************************************************************************)
\* the vertices found at the level being traversed
FoundAtThisLevel == {next_objects[j] : j \in DOMAIN next_objects}

\* the offsets at which object a holds the address of object b
HeldAt(a, b) == {off \in Offsets : <<a, off, b>> \in heap}

\* only the depth test has ended the traversal: every hit of every object
\* scanned was worked through
EndedByDepthAlone == pc = "exported" /\ max_vertices <= 0 /\ ~late

\* the edges of the written graph join written vertices, and an edge's label
\* holds offsets at which the referrer holds the referee's address: all of
\* them when no bound cut the scan of the referee short
EdgesConsistent ==
    pc = "exported" =>
        \A e \in DOMAIN edges :
            /\ e[1] \in vertices
            /\ e[2] \in vertices
            /\ edges[e] # {}
            /\ edges[e] \subseteq HeldAt(e[1], e[2])
            /\ EndedByDepthAlone => edges[e] = HeldAt(e[1], e[2])

\* an edge leads towards an object that was scanned, which is the root or a
\* vertex found at an earlier level than the one being traversed
EdgeTowardsEarlierLevel ==
    \A e \in DOMAIN edges :
        /\ \E i \in DOMAIN scanned : scanned[i] = e[2]
        /\ \/ e[2] = address
           \/ e[2] \in vertices \ FoundAtThisLevel

\* C24: wherever the construction stops (depth, vertex bound, timeout) the
\* written graph is consistent: both ends of every edge are vertices of it,
\* there is one edge per (referrer, referee) pair, labelled with the offsets
\* at which the referrer was found to hold the referee's address, and the
\* referee of every edge is the root or a vertex found at an earlier level.
C24_StoppedGraphIsConsistent ==
    /\ EdgesConsistent
    /\ EdgeTowardsEarlierLevel

\* a graph cut by the vertex bound, with an edge labelled with two offsets and
\* an edge towards a vertex that is not the root
C24_Witness ==
    /\ pc = "exported"
    /\ max_vertices > 0
    /\ Cardinality(vertices) > max_vertices
    /\ \E e \in DOMAIN edges : Cardinality(edges[e]) = 2
    /\ \E e \in DOMAIN edges : e[2] # address

\* the loop goes round with nothing left to scan and nothing to stop it
Spinning ==
    /\ pc \in {"while", "for", "level"}
    /\ ~stop
    /\ max_depth <= 0
    /\ current_objects = <<>>
    /\ next_objects = <<>>

\* C26: the traversal ends for every accepted call, also when only
\* max_vertices or timeout is set and the frontier becomes empty before the
\* bound is reached: the loop is never left going round on an empty frontier.
C26_EmptyFrontierEndsLoop ==
    (max_depth > 0 \/ max_vertices > 0 \/ timeout_seconds > 0) => ~Spinning

\* What the code does: once the loop goes round on an empty frontier it does
\* so for ever, only depth grows.
C26_SpinningLasts == [][Spinning => Spinning']_vars

\* how often find was called with address a
TimesScanned(a) == Cardinality({j \in DOMAIN scanned : scanned[j] = a})

\* C30: in one traversal find is called at most once with each address; the
\* root, scanned at level 0, is not scanned again when it refers to itself or
\* lies on a reference cycle.
C30_EachAddressScannedOnce == \A a \in Objects : TimesScanned(a) <= 1

\* What the code does guarantee: find is called at most once with an address
\* other than the root.
C30_OthersScannedOnce == \A a \in Objects \ {address} : TimesScanned(a) <= 1

(***************************************************************************)
(* reactor_threads, reactors and their consumers                           *)
(***************************************************************************)
\* what a consumer of reactor_threads() leaves behind: the value it returns
\* and the thread selected
Consumed(value, thread) == [value |-> value, selected |-> thread]

\* get_thread_owning_memory(p): the for loop over reactor_threads() from
\* thread t on. The generator switches to each thread and yields the reactor
\* threads; a return inside the loop leaves the generator suspended at its
\* yield, and orig.switch() stands behind the generator's loop
RECURSIVE OwningFrom(_, _, _, _)
OwningFrom(t, reactor, before, p) ==
    IF t > NumThreads THEN Consumed(None, before)
    ELSE IF reactor[t] /\ MemStart(t) <= p /\ p < MemStart(t) + MemSize
    THEN Consumed(Some(t), t)
    ELSE OwningFrom(t + 1, reactor, before, p)

get_thread_owning_memory(reactor, before, p) == OwningFrom(1, reactor, before, p)

\* for r in reactors(): consumed to its end; the reactors yielded
RECURSIVE ReactorsFrom(_, _, _)
ReactorsFrom(t, reactor, before) ==
    IF t > NumThreads THEN Consumed(<<>>, before)
    ELSE LET rest == ReactorsFrom(t + 1, reactor, before)
         IN  IF reactor[t] THEN Consumed(<<t>> \o rest.value, rest.selected) ELSE rest

ThreadsInit ==
    /\ has_reactor \in [Threads -> BOOLEAN]
    /\ selected \in Threads
    /\ pages = <<>>
    /\ pools = <<>>
    /\ op = "none"
    /\ ptr = 0
    /\ orig = selected
    /\ span_found = <<>>
    /\ ptr_meta = <<>>
    /\ outcome = "none"
    /\ GraphIdle
    /\ OtherIdle

\* a call get_thread_owning_memory(p)
OwningThread ==
    /\ op = "none"
    /\ \E p \in Ptrs :
         \E r \in {get_thread_owning_memory(has_reactor, selected, p)} :
             /\ ptr' = p
             /\ selected' = r.selected
             /\ outcome' = IF r.value = None THEN "None" ELSE "thread"
    /\ op' = "get_thread_owning_memory"
    /\ orig' = selected
    /\ UNCHANGED <<pages, pools, has_reactor, span_found, ptr_meta>>
    /\ UNCHANGED <<graphVars, otherVars>>

\* seastar_memory_layout(): reactor_threads() consumed to its end
MemoryLayout ==
    /\ op = "none"
    /\ selected' = seastar_memory_layout(has_reactor, selected).selected
    /\ outcome' = "layout"
    /\ op' = "seastar_memory_layout"
    /\ orig' = selected
    /\ UNCHANGED <<pages, pools, has_reactor, ptr, span_found, ptr_meta>>
    /\ UNCHANGED <<graphVars, otherVars>>

\* a loop over reactors() that runs to its end
AllReactors ==
    /\ op = "none"
    /\ selected' = ReactorsFrom(1, has_reactor, selected).selected
    /\ outcome' = "reactors"
    /\ op' = "reactors"
    /\ orig' = selected
    /\ UNCHANGED <<pages, pools, has_reactor, ptr, span_found, ptr_meta>>
    /\ UNCHANGED <<graphVars, otherVars>>

ThreadsNext ==
    \/ OwningThread
    \/ MemoryLayout
    \/ AllReactors

SpecThreads == ThreadsInit /\ [][ThreadsNext]_vars

\* C25: after reactor_threads() or reactors() was consumed, to its end or by
\* a consumer that stops early (get_thread_owning_memory returning the first
\* owning thread, or finding none), the selected thread is the thread that
\* was selected before.
C25_EnumerationRestoresThread == op # "none" => selected = orig

\* What the code does guarantee: the selection is restored when the
\* enumeration ran to its end, as it does when no thread owns the address.
C25_ExhaustedRestoresThread ==
    (op \in {"seastar_memory_layout", "reactors"}
     \/ (op = "get_thread_owning_memory" /\ outcome = "None")) => selected = orig

(***************************************************************************)
(* scylla lsa-segment on a segment of any content                          *)
(***************************************************************************)
\* the descriptor byte of a dead run that reaches from the segment's first
\* byte to its end
DeadToEnd == 192 + 2 * SegmentSize

\* bytes of every kind decode and end_pos tell apart: no descriptor (bit 6
\* clear), a first byte to be continued, a dead run of length 0 and of length
\* 1, a blob, a fixed-size object, an object whose migrator names no type, and
\* a dead run over the whole segment
AnyBytes == {0, 64, 192, 193, 194, 195, 255, DeadToEnd}

\* the bytes at the start of the segment that take any value; zero bytes
\* follow
MaxPrefix == 3

LsaAnyInit ==
    /\ \E bytes \in [1..MaxPrefix -> AnyBytes] :
         lsa_mem = At(SegBase, bytes \o Zeros(SegmentSize - MaxPrefix))
    /\ planted = <<>>
    /\ seg \in LsaArgs
    /\ desc = <<>>
    /\ printed = <<>>
    /\ lsa_pc = "invoke"
    /\ GraphIdle
    /\ QueryIdle
    /\ FiberIdle
    /\ HistIdle
    /\ ProfIdle
    /\ TaskIdle
    /\ ResolveIdle
    /\ CtxIdle

SpecLsaAny == LsaAnyInit /\ [][LsaNext]_vars

\* a pass of the loop that decoded a descriptor and goes on
DecodedPass == lsa_pc = "while" /\ lsa_pc' = "while"

\* C27: every pass of the decode loop that decodes a descriptor moves the read
\* position forward, a dead descriptor of run length 0 and a live descriptor
\* of size 0 included, so the loop ends at the segment end or with a decode
\* error.
C27_EveryPassAdvances == [][DecodedPass => seg' > seg]_vars

\* What the code does guarantee: a live descriptor, whatever its size, and a
\* dead descriptor of run length 1 or more move the position forward.
C27_LiveAndNonEmptyDeadAdvance ==
    [][(DecodedPass /\ (is_live(desc') \/ dead_size(desc') > 0)) => seg' > seg]_vars

\* a live descriptor of size 0 was passed
C27_LiveSizeZeroPassed ==
    \E i \in 1..Len(printed) : printed[i].live /\ printed[i].size = 0

(***************************************************************************)
(* seastar_thread_context, scylla thread and scylla unthread               *)
(***************************************************************************)
\* save_regs and restore_regs treat the registers of jmpbuf_offsets (rbx, rbp,
\* r12 to r15, rsp, rip) alike: the model holds them as one value a thread.
\* The values the OS threads' registers start with
RegValues == {1, 2}

\* regs_from_jmpbuf(thread_ctx['_context']['jmpbuf']): the registers a seastar
\* thread that is not running was suspended with
JmpbufRegs == 0

\* the seastar::thread_context objects: one in the memory of each OS thread
Contexts == {MemStart(t) : t \in Threads}

\* what the debugger holds: the selected thread and every thread's registers
Debugger(thread, registers) == [selected |-> thread, regs |-> registers]

\* what scylla thread and scylla unthread leave alone
ctxRest == <<graphVars, pages, pools, has_reactor, queryVars,
             lsaVars, fiberVars, histVars, profVars, taskVars, resolveVars>>

\* seastar_thread_context.__init__ in debugger state dbg: the object built and
\* the thread get_thread_owning_memory leaves selected
Construct(reactor, dbg, thread_ctx) ==
    LET owning == get_thread_owning_memory(reactor, dbg.selected, thread_ctx)
    IN  [context |-> [thread_ctx |-> thread_ctx,
                      old_regs |-> dbg.regs[dbg.selected],
                      old_gdb_thread |-> dbg.selected,
                      gdb_thread |-> owning.value,
                      new_regs |-> None],
         dbg |-> Debugger(owning.selected, dbg.regs)]

\* self.gdb_thread.num where get_thread_owning_memory returned None
EnterRaises(context) == context.gdb_thread = None

\* seastar_thread_context.__enter__
Enter(context, dbg, running) ==
    LET t == context.gdb_thread[1]
    IN  IF EnterRaises(context) THEN [context |-> context, dbg |-> dbg]
        ELSE IF context.thread_ctx \in running
        THEN [context |-> context, dbg |-> Debugger(t, dbg.regs)]
        ELSE [context |-> [context EXCEPT !.new_regs = Some(JmpbufRegs)],
              dbg |-> Debugger(t, [dbg.regs EXCEPT ![t] = JmpbufRegs])]

\* seastar_thread_context.__exit__
Exit(context, dbg) ==
    Debugger(context.old_gdb_thread,
             IF context.new_regs # None
             THEN [dbg.regs EXCEPT ![context.gdb_thread[1]] = context.old_regs]
             ELSE dbg.regs)

\* exit_thread_context() on the module-level context active
exit_thread_context(active, dbg) ==
    IF active # None THEN Exit(active[1], dbg) ELSE dbg

\* with seastar_thread_context(t): a command that changes neither selection
\* nor registers
WithContext(reactor, dbg, running, thread_ctx) ==
    LET built == Construct(reactor, dbg, thread_ctx)
        entered == Enter(built.context, built.dbg, running)
    IN  Exit(entered.context, entered.dbg)

\* invoke_apply_all: for r in reactors(), from thread t on; the seastar
\* threads of the shard are those in the memory of the thread selected
RECURSIVE ApplyAllFrom(_, _, _, _, _)
ApplyAllFrom(t, reactor, before, dbg, running) ==
    IF t > NumThreads THEN Debugger(before, dbg.regs)
    ELSE IF reactor[t]
    THEN ApplyAllFrom(t + 1, reactor, before,
                      WithContext(reactor, Debugger(t, dbg.regs), running, MemStart(t)),
                      running)
    ELSE ApplyAllFrom(t + 1, reactor, before, Debugger(t, dbg.regs), running)

CtxInit ==
    /\ has_reactor \in [Threads -> BOOLEAN]
    /\ selected \in Threads
    /\ regs \in [Threads -> RegValues]
    /\ switched_in \in SUBSET Contexts
    /\ active_thread_context = None
    /\ ctx_before = <<>>
    /\ ctx_op = "none"
    /\ pages = <<>>
    /\ pools = <<>>
    /\ op = "none"
    /\ ptr = 0
    /\ orig = 0
    /\ span_found = <<>>
    /\ ptr_meta = <<>>
    /\ outcome = "none"
    /\ GraphIdle
    /\ LsaIdle
    /\ FiberIdle
    /\ HistIdle
    /\ ProfIdle
    /\ TaskIdle
    /\ ResolveIdle

\* scylla thread <pointer>: exit_thread_context(), then the new context is
\* built, stored and entered
ScyllaThread ==
    \E thread_ctx \in Contexts :
      \E left \in {exit_thread_context(active_thread_context, Debugger(selected, regs))} :
        \E built \in {Construct(has_reactor, left, thread_ctx)} :
          \E entered \in {Enter(built.context, built.dbg, switched_in)} :
            /\ ctx_before' = left
            /\ active_thread_context' = Some(entered.context)
            /\ selected' = entered.dbg.selected
            /\ regs' = entered.dbg.regs
            /\ ctx_op' = IF EnterRaises(built.context) THEN "AttributeError" ELSE "thread"
            /\ UNCHANGED switched_in
            /\ UNCHANGED ctxRest

\* scylla unthread
ScyllaUnthread ==
    \E left \in {exit_thread_context(active_thread_context, Debugger(selected, regs))} :
        /\ selected' = left.selected
        /\ regs' = left.regs
        /\ active_thread_context' = None
        /\ ctx_op' = IF active_thread_context # None THEN "unthread" ELSE "unthread again"
        /\ UNCHANGED <<switched_in, ctx_before>>
        /\ UNCHANGED ctxRest

\* scylla thread apply all <cmd>; ctx_before goes on describing the context
\* of scylla thread where one is active
ScyllaThreadApplyAll ==
    \E left \in {ApplyAllFrom(1, has_reactor, selected, Debugger(selected, regs), switched_in)} :
        /\ ctx_before' = IF active_thread_context = None
                          THEN Debugger(selected, regs) ELSE ctx_before
        /\ selected' = left.selected
        /\ regs' = left.regs
        /\ ctx_op' = "apply all"
        /\ UNCHANGED <<switched_in, active_thread_context>>
        /\ UNCHANGED ctxRest

CtxNext ==
    \/ ScyllaThread
    \/ ScyllaUnthread
    \/ ScyllaThreadApplyAll

SpecCtx == CtxInit /\ [][CtxNext]_vars

\* a context was left: by scylla unthread after scylla thread, or by the with
\* blocks of scylla thread apply all given while no context was active
ContextLeft ==
    \/ ctx_op = "unthread"
    \/ ctx_op = "apply all" /\ active_thread_context = None

\* C29: after a seastar_thread_context was entered and left, the selected
\* thread is the one selected before and the saved registers of every OS
\* thread, the thread owning the seastar thread included, have the values
\* they had before the context was entered; a second exit with no context
\* active changes nothing, and at most one context is active.
C29_LeavingRestoresDebugger ==
    /\ [](ContextLeft => (selected = ctx_before.selected /\ regs = ctx_before.regs))
    /\ [][active_thread_context = None /\ ScyllaUnthread => UNCHANGED <<selected, regs>>]_vars

\* What the code does guarantee: the selection is restored, the registers of
\* the threads other than the owning one are untouched, and an exit with no
\* context active changes nothing.
C29_SelectionRestored ==
    /\ [](ContextLeft => selected = ctx_before.selected)
    /\ [][active_thread_context = None /\ ScyllaUnthread => UNCHANGED <<selected, regs>>]_vars

\* The registers are restored where the owning thread is the thread that was
\* selected, or the seastar thread was running.
C29_RegistersRestoredOnOwnThread ==
    [][(ScyllaUnthread /\ active_thread_context # None
        /\ (active_thread_context[1].new_regs = None
            \/ active_thread_context[1].gdb_thread = Some(active_thread_context[1].old_gdb_thread)))
       => regs' = ctx_before.regs]_vars

====
